---- MODULE Spec2Model ----
(***************************************************************************)
(* The Witness Sandbox: the grid's state machine (Grid.tsx), the drag      *)
(* sessions that feed it (useDrag / useDrop of react-dnd) and the grid     *)
(* configuration held by App.                                              *)
(*                                                                         *)
(* Cell identities `${row}-${col}` are the pairs <<row, col>>, wall        *)
(* identities `h-${row}-${col}` / `v-${row}-${col}` are the triples        *)
(* <<"h", row, col>> / <<"v", row, col>>.  Patterns are sequences of rows, *)
(* 1-based here and 0-based in the source.                                 *)
(***************************************************************************)
EXTENDS Integers, Sequences, FiniteSets, TLC

VARIABLES
    rows,          \* App.gridRows, the Grid's rows prop
    cols,          \* App.gridCols, the Grid's cols prop
    editionMode,   \* App.editionMode
    pieces,        \* Grid: useState<PlacedPiece[]>
    walls,         \* Grid: useState<Set<string>>
    markedCells,   \* Grid: useState<Set<string>>
    cellMinis,     \* Grid: useState<Map<string, {pattern, color}>>
    palette,       \* PaletteShape: useState(initialPattern), per palette shape
    dropPieces,    \* the `pieces` array captured by the registered drop handler
    drag,          \* the drag session in progress, or NoDrag
    nextId,        \* number of the next generated piece identity
    lastOp,        \* history: the handler that ran last, its inputs and outcome
    steps,         \* history: the number of handlers run so far
    customShapes,  \* App: useState<CustomPiece[]>, the catalog of custom shapes
    creator,       \* ShapeCreator: isOpen, selectedColor, pattern, editingShape
    nextShapeId,   \* number of the next generated shape identity
    storage,       \* localStorage: the item under the key 'customShapes'
    mount          \* App's mount: effects still to run, the update they queued

vars == <<rows, cols, editionMode, pieces, walls, markedCells, cellMinis,
          palette, dropPieces, drag, nextId, lastOp, steps,
          customShapes, creator, nextShapeId, storage, mount>>

appVars == <<customShapes, creator, nextShapeId, storage, mount>>

gridVars == <<pieces, walls, markedCells, cellMinis>>

----------------------------------------------------------------------------
(* Program constants *)

gridCellSize == 30
gridPaddingSize == 5
cellSize == gridCellSize
gapSize == gridPaddingSize
containerPadding == gapSize + 3
InitialGridSize == 5
EditorSize == 6
MinGridSize == 1
MaxGridSize == 10

(* Bounds of the model *)

MaxIds == 2          \* piece identities generated in one behaviour
MaxSteps == 10       \* handlers run in one behaviour
MaxPatternRows == 3  \* rows of the patterns the rotation is applied to
MaxPatternCols == 2  \* columns of the patterns the rotation is applied to
MaxEditorRows == 2   \* rows of the region of the editor drawn in the initial state
MaxEditorCols == 2   \* columns of that region
MaxShapes == 2       \* custom shape identities generated in one behaviour

----------------------------------------------------------------------------
(* Values *)

NoId == <<>>                      \* item.pieceId undefined
NoPiece == [id |-> NoId]          \* pieces.find(...) found nothing
NoDrag == [src |-> "none"]
EmptyMap == [k \in {} |-> 0]

PieceId(n) == <<"piece", n>>

\* The bounding rectangle of the grid container on screen (DOM layout).
Rect == [left |-> 100, top |-> 60]

At(dx, dy) == [x |-> Rect.left + dx, y |-> Rect.top + dy]

I2 == <<<<1, 1>>>>
L3 == <<<<1, 0>>, <<1, 1>>>>

\* The palette feed: (identity, color, pattern) of each shape offered.
Shapes == {[type |-> "I2", color |-> "yellow", pattern |-> I2],
           [type |-> "L3", color |-> "blue", pattern |-> L3]}

\* The palette entry of identity `type`: a preset, or else the custom shape of
\* the catalog with that id.
ShapeOf(type) ==
    IF \E shape \in Shapes : shape.type = type
    THEN CHOOSE shape \in Shapes : shape.type = type
    ELSE LET custom == customShapes[CHOOSE i \in 1..Len(customShapes) :
                                       customShapes[i].id = type]
         IN  [type |-> custom.id, color |-> custom.color, pattern |-> custom.pattern]

\* ShapeCreator: editingShape null, the default color, the generated shape id
NoShape == [id |-> NoId]

\* localStorage.getItem(key) of a key never written
NoItem == [text |-> FALSE]

\* JSON.stringify(value) and JSON.parse(text): the text of a catalog is the
\* list of its records; any item that is a text is truthy, "[]" included.
JSON_stringify(value) == [text |-> TRUE, json |-> value]
JSON_parse(item) == item.json

\* The mount is over: both effects have run and no update is queued.
NoUpdate == [pending |-> FALSE]
Mounted == [phase |-> "done", queued |-> NoUpdate, before |-> NoItem]
DefaultColor == "#F5BE02"
ShapeId(n) == "shape-" \o ToString(n)

----------------------------------------------------------------------------
(* Pattern engine *)

\* Mutant of rotatePattern: the quarter turn goes counter-clockwise.
rotatePattern_CounterClockwise(pattern) ==
    LET r == Len(pattern)
        c == Len(pattern[1])
    IN  [j \in 1..c |-> [k \in 1..r |-> pattern[k][c + 1 - j]]]

\* rotated[j][rows - 1 - i] = pattern[i][j]
rotatePattern(pattern) ==
    LET r == Len(pattern)
        c == Len(pattern[1])
    IN  [j \in 1..c |-> [k \in 1..r |-> pattern[r + 1 - k][j]]]

\* Array(cols).fill(null).map(() => Array(rows).fill(0))
ZeroMatrix(nRows, nCols) == [j \in 1..nRows |-> [k \in 1..nCols |-> 0]]

\* The two nested loops of PaletteShape's rotatePattern, one assignment
\* rotated[j][rows - 1 - i] = pattern[i][j] per turn: n counts the turns done.
RECURSIVE RotateLoop(_, _, _)
RotateLoop(pattern, rotated, n) ==
    LET r == Len(pattern)
        c == Len(pattern[1])
        i == (n \div c) + 1
        j == (n % c) + 1
    IN  IF n >= r * c
        THEN rotated
        ELSE RotateLoop(pattern,
                        [rotated EXCEPT ![j][r + 1 - i] = pattern[i][j]],
                        n + 1)

\* Mutant of PaletteShape_rotatePattern: the matrix is transposed.
PaletteShape_rotatePattern_Transposed(pattern) ==
    [j \in 1..Len(pattern[1]) |-> [k \in 1..Len(pattern) |-> pattern[k][j]]]

\* PaletteShape's own copy of rotatePattern
PaletteShape_rotatePattern(pattern) ==
    RotateLoop(pattern, ZeroMatrix(Len(pattern[1]), Len(pattern)), 0)

\* The set cells of a pattern, as 0-based <<i, j>> offsets from its top-left.
SetCells(pattern) ==
    UNION {{<<i - 1, j - 1>> : j \in {jj \in 1..Len(pattern[i]) : pattern[i][jj] # 0}} :
           i \in 1..Len(pattern)}

----------------------------------------------------------------------------
(* Geometry mapper *)

\* Math.round(n / d) for integers n and d > 0: halves round towards +infinity.
MathRound(n, d) == (2 * n + d) \div (2 * d)

\* Math.floor(n / d)
MathFloor(n, d) == n \div d

\* Math.round((client - rectOrigin - padding) / (cellSize + gapSize))
PointerCell(client, rectOrigin) ==
    MathRound(client - rectOrigin - containerPadding, cellSize + gapSize)

\* Mutant of BlockIndex: the index is not clamped to the pattern's extent.
BlockIndex_NoUpperClamp(grabOffset, extent) ==
    LET b0 == MathFloor(grabOffset, cellSize + gapSize)
    IN  IF b0 < 0 THEN 0 ELSE b0

\* floor(grabOffset / (cellSize + gapSize)), clamped by the two `if`s in turn
BlockIndex(grabOffset, extent) ==
    LET b0 == MathFloor(grabOffset, cellSize + gapSize)
        b1 == IF b0 < 0 THEN 0 ELSE b0
    IN  IF b1 >= extent THEN extent - 1 ELSE b1

\* The origin of a free placement: [row, col]
DropOrigin(item, clientOffset) ==
    LET pattern == item.pattern
        blockIndexX == BlockIndex(item.pointerOffset.x, Len(pattern[1]))
        blockIndexY == BlockIndex(item.pointerOffset.y, Len(pattern))
    IN  [row |-> PointerCell(clientOffset.y, Rect.top) - blockIndexY,
         col |-> PointerCell(clientOffset.x, Rect.left) - blockIndexX]

\* Mutant of DropCell: the block index of the grab is subtracted, as in a free
\* placement.
DropCell_GrabAdjusted(clientOffset) == DropOrigin(drag.item, clientOffset)

\* The target cell of an edition-mode drop: [row, col]
DropCell(clientOffset) ==
    [row |-> PointerCell(clientOffset.y, Rect.top),
     col |-> PointerCell(clientOffset.x, Rect.left)]

----------------------------------------------------------------------------
(* Placement validator *)

\* Mutant of Fits: only the origin cell is tested.
Fits_OriginOnly(pattern, row, col, rs, cs) ==
    ~ (row >= rs \/ col >= cs \/ row < 0 \/ col < 0)

\* The loop over the pattern that returns at the first set cell out of the grid.
Fits(pattern, row, col, rs, cs) ==
    ~ \E i \in 1..Len(pattern) : \E j \in 1..Len(pattern[i]) :
        /\ pattern[i][j] # 0
        /\ LET targetRow == row + (i - 1)
               targetCol == col + (j - 1)
           IN  targetRow >= rs \/ targetCol >= cs \/ targetRow < 0 \/ targetCol < 0

\* Mutant of CellInRange: only the lower ends of the ranges are tested.
CellInRange_NoUpper(cell, rs, cs) == ~ (cell.col < 0 \/ cell.row < 0)

\* if (colCell < 0 || colCell >= cols || rowCell < 0 || rowCell >= rows) return
CellInRange(cell, rs, cs) ==
    ~ (cell.col < 0 \/ cell.col >= cs \/ cell.row < 0 \/ cell.row >= rs)

\* the safety check on item.pattern (a missing pattern is the empty sequence)
ValidPattern(pattern) == Len(pattern) # 0

----------------------------------------------------------------------------
(* Grid state machine: the state updaters *)

\* pieces.find(p => p.id === pieceId)
FindPiece(ps, pieceId) ==
    IF \E i \in 1..Len(ps) : ps[i].id = pieceId
    THEN ps[CHOOSE i \in 1..Len(ps) :
                /\ ps[i].id = pieceId
                /\ \A k \in 1..(i - 1) : ps[k].id # pieceId]
    ELSE NoPiece

\* The PlacedPiece built by handleDrop; `closurePieces` is the `pieces` the
\* handler closed over, `freshId` the generated identity.
NewPiece(item, origin, closurePieces, freshId) ==
    LET existingPiece == FindPiece(closurePieces, item.pieceId)
    IN  [id |-> IF item.pieceId # NoId THEN item.pieceId ELSE freshId,
         type |-> item.type,
         pattern |-> item.pattern,
         originalPattern |-> IF existingPiece.id # NoId
                             THEN existingPiece.originalPattern
                             ELSE item.pattern,
         color |-> item.color,
         row |-> origin.row,
         col |-> origin.col,
         rotation |-> IF existingPiece.id # NoId
                      THEN existingPiece.rotation
                      ELSE 0]

\* Mutant of ReplacePiece: the old entry is not filtered out.
ReplacePiece_NoFilter(prev, pieceId, newPiece) == Append(prev, newPiece)

\* Mutant of ReplacePiece: a piece of the collection is rewritten where it
\* stands.
ReplacePiece_InPlace(prev, pieceId, newPiece) ==
    IF \E i \in 1..Len(prev) : prev[i].id = pieceId
    THEN [i \in 1..Len(prev) |-> IF prev[i].id = pieceId THEN newPiece ELSE prev[i]]
    ELSE Append(prev, newPiece)

\* setPieces(prev => [...prev.filter(p => !(pieceId && p.id === pieceId)), newPiece])
ReplacePiece(prev, pieceId, newPiece) ==
    LET Keep(p) == ~ (pieceId # NoId /\ p.id = pieceId)
    IN  Append(SelectSeq(prev, Keep), newPiece)

\* Mutant of RemoveFrom: the pieces placed after the removed one go with it.
RemoveFrom_AndLater(prev, id) ==
    IF \E i \in 1..Len(prev) : prev[i].id = id
    THEN SubSeq(prev, 1, (CHOOSE i \in 1..Len(prev) : prev[i].id = id) - 1)
    ELSE prev

\* setPieces(prev => prev.filter(p => p.id !== id))
RemoveFrom(prev, id) ==
    LET Keep(p) == p.id # id
    IN  SelectSeq(prev, Keep)

\* Mutant of RotateIn: the rotation is advanced without the modulo.
RotateIn_NoMod(prev, id) ==
    [i \in 1..Len(prev) |->
        IF prev[i].id = id
        THEN [prev[i] EXCEPT !.pattern = rotatePattern(prev[i].pattern),
                             !.rotation = prev[i].rotation + 90]
        ELSE prev[i]]

\* Mutant of RotateIn: every piece of the collection is turned.
RotateIn_All(prev, id) ==
    [i \in 1..Len(prev) |->
        [prev[i] EXCEPT !.pattern = rotatePattern(prev[i].pattern),
                        !.rotation = (prev[i].rotation + 90) % 360]]

\* setPieces(prev => prev.map(p => p.id === id ? rotated : p))
RotateIn(prev, id) ==
    [i \in 1..Len(prev) |->
        IF prev[i].id = id
        THEN [prev[i] EXCEPT !.pattern = rotatePattern(prev[i].pattern),
                             !.rotation = (prev[i].rotation + 90) % 360]
        ELSE prev[i]]

\* Mutant of ToggleIn: the identity is added, never deleted.
ToggleIn_AddOnly(set, id) == set \cup {id}

\* the Set updater of toggleWall and of toggleMarkedCell
ToggleIn(set, id) == IF id \in set THEN set \ {id} ELSE set \cup {id}

\* Mutant of MapSet: an existing entry is kept.
MapSet_KeepExisting(map, key, value) ==
    [k \in DOMAIN map \cup {key} |-> IF k \in DOMAIN map THEN map[k] ELSE value]

\* next.set(cellId, {pattern, color})
MapSet(map, key, value) ==
    [k \in DOMAIN map \cup {key} |-> IF k = key THEN value ELSE map[k]]

\* next.delete(cellId)
MapDelete(map, key) == [k \in DOMAIN map \ {key} |-> map[k]]

\* Mutant of UnmarkCell: the marker stays.
UnmarkCell_Keep(set, cellId) == set

\* setMarkedCells of the edition-mode drop: delete the marker of the cell
UnmarkCell(set, cellId) == IF cellId \notin set THEN set ELSE set \ {cellId}

----------------------------------------------------------------------------
(* What the grid renders, hence what can be clicked *)

NoColor == "null"                 \* getCellColor found no piece

\* piece.pattern[r][c] && piece.row + r === row && piece.col + c === col
PieceCovers(piece, row, col) ==
    \E r \in 1..Len(piece.pattern) : \E c \in 1..Len(piece.pattern[r]) :
        /\ piece.pattern[r][c] # 0
        /\ piece.row + (r - 1) = row
        /\ piece.col + (c - 1) = col

\* Mutant of getCellColor: the pieces are scanned from the first placed.
getCellColor_FirstPlaced(ps, row, col) ==
    IF \E i \in 1..Len(ps) : PieceCovers(ps[i], row, col)
    THEN ps[CHOOSE i \in 1..Len(ps) :
                /\ PieceCovers(ps[i], row, col)
                /\ \A k \in 1..(i - 1) : ~ PieceCovers(ps[k], row, col)].color
    ELSE NoColor

\* for (let i = pieces.length - 1; i >= 0; i--): the first piece found wins
RECURSIVE ScanPieces(_, _, _, _)
ScanPieces(ps, i, row, col) ==
    IF i < 1
    THEN NoColor
    ELSE IF PieceCovers(ps[i], row, col)
         THEN ps[i].color
         ELSE ScanPieces(ps, i - 1, row, col)

\* The color the grid paints cell (row, col) with, or NoColor
getCellColor(ps, row, col) == ScanPieces(ps, Len(ps), row, col)

RenderedCells(rs, cs) == (0..(rs - 1)) \X (0..(cs - 1))

RenderedEdges(rs, cs) ==
    {<<"h", r, c>> : r \in 0..rs, c \in 0..(cs - 1)} \cup
    {<<"v", r, c>> : r \in 0..(rs - 1), c \in 0..cs}

\* Mutant of ClampGridSize: Math.max(1, value), no upper limit.
ClampGridSize_NoUpper(v) == IF v > MinGridSize THEN v ELSE MinGridSize

\* Math.max(1, Math.min(10, parseInt(value)))
ClampGridSize(v) ==
    LET lo == IF v < MaxGridSize THEN v ELSE MaxGridSize
    IN  IF lo > MinGridSize THEN lo ELSE MinGridSize

\* ShapeCreator's state as constructed and as resetForm() leaves it, the dialog
\* closed
NewForm ==
    [isOpen |-> FALSE,
     selectedColor |-> DefaultColor,
     pattern |-> ZeroMatrix(EditorSize, EditorSize),
     editingShape |-> NoShape]

----------------------------------------------------------------------------
(* Shape editor and catalog *)

MinOf(S) == CHOOSE x \in S : \A y \in S : x <= y
MaxOf(S) == CHOOSE x \in S : \A y \in S : x >= y

\* Mutant of trimPattern: at most one empty row or column is cut from each side.
trimPattern_OneLayer(pat) ==
    LET set == SetCells(pat)
        nRows == Len(pat)
        nCols == Len(pat[1])
    IN  IF set = {} THEN <<<<1>>>>
        ELSE LET top == IF \E c \in set : c[1] = 0 THEN 0 ELSE 1
                 bottom == IF \E c \in set : c[1] = nRows - 1 THEN nRows - 1
                           ELSE nRows - 2
                 left == IF \E c \in set : c[2] = 0 THEN 0 ELSE 1
                 right == IF \E c \in set : c[2] = nCols - 1 THEN nCols - 1
                          ELSE nCols - 2
             IN  [i \in 1..(bottom - top + 1) |->
                    SubSeq(pat[top + i], left + 1, right + 1)]

\* Mutant of trimPattern: empty rows are cut, columns are kept.
trimPattern_RowsOnly(pat) ==
    LET set == SetCells(pat)
    IN  IF set = {} THEN <<<<1>>>>
        ELSE LET minRow == MinOf({c[1] : c \in set})
                 maxRow == MaxOf({c[1] : c \in set})
             IN  [i \in 1..(maxRow - minRow + 1) |-> pat[minRow + i]]

\* trimPattern(pat): minRow..maxRow and minCol..maxCol are the least and the
\* greatest 0-based row and column of a set cell; [[1]] when there is none
\* (minRow > maxRow); else rows minRow..maxRow, each sliced minCol..maxCol.
trimPattern(pat) ==
    LET set == SetCells(pat)
    IN  IF set = {} THEN <<<<1>>>>
        ELSE LET minRow == MinOf({c[1] : c \in set})
                 maxRow == MaxOf({c[1] : c \in set})
                 minCol == MinOf({c[2] : c \in set})
                 maxCol == MaxOf({c[2] : c \in set})
             IN  [i \in 1..(maxRow - minRow + 1) |->
                    SubSeq(pat[minRow + i], minCol + 1, maxCol + 1)]

\* newPattern[row][col] = newPattern[row][col] ? 0 : 1   (0-based row, col)
ToggledCell(pat, row, col) ==
    [pat EXCEPT ![row + 1][col + 1] = IF pat[row + 1][col + 1] # 0 THEN 0 ELSE 1]

\* Mutant of App_handleSaveShape: the shape is appended whatever its id.
App_handleSaveShape_Appends(prev, shape) == Append(prev, shape)

\* App.handleSaveShape's updater: findIndex by id, replace there or append
App_handleSaveShape(prev, shape) ==
    IF \E i \in 1..Len(prev) : prev[i].id = shape.id
    THEN LET existing == CHOOSE i \in 1..Len(prev) :
                            /\ prev[i].id = shape.id
                            /\ \A k \in 1..(i - 1) : prev[k].id # shape.id
         IN  [prev EXCEPT ![existing] = shape]
    ELSE Append(prev, shape)

\* App.handleDeleteShape's updater: prev.filter(s => s.id !== id)
App_handleDeleteShape(prev, id) ==
    SelectSeq(prev, LAMBDA shape : shape.id # id)

\* The PaletteShape components after the catalog became `shapes`: they are
\* keyed by shape.id; a new key mounts with useState(initialPattern), a kept
\* key keeps its state, a key no longer rendered unmounts.  Preset shapes stay.
PaletteAfter(shapes) ==
    LET presets == {shape.type : shape \in Shapes}
        customs == {shapes[i].id : i \in 1..Len(shapes)}
    IN  [type \in presets \cup customs |->
           IF type \in DOMAIN palette THEN palette[type]
           ELSE shapes[CHOOSE i \in 1..Len(shapes) : shapes[i].id = type].pattern]

----------------------------------------------------------------------------
(* Initial state: App and Grid as mounted *)

Init ==
    /\ rows = InitialGridSize
    /\ cols = InitialGridSize
    /\ editionMode = FALSE
    /\ pieces = <<>>
    /\ walls = {}
    /\ markedCells = {}
    /\ cellMinis = EmptyMap
    /\ palette = [type \in {shape.type : shape \in Shapes} |-> ShapeOf(type).pattern]
    /\ dropPieces = <<>>
    /\ drag = NoDrag
    /\ nextId = 1
    /\ lastOp = [op |-> "mount"]
    /\ steps = 0
    /\ customShapes = <<>>
    /\ creator = NewForm
    /\ nextShapeId = 1
    /\ storage = JSON_stringify(customShapes)
    /\ mount = Mounted

----------------------------------------------------------------------------
(* Handlers.  `I` is the record of the input sets a specification draws from. *)

\* One handler runs: the model stops a behaviour after MaxSteps of them.
Tick == steps < MaxSteps /\ steps' = steps + 1

\* Mutant of PiecesAfterDrop: the old entry is removed before the bounds check.
PiecesAfterDrop_RemoveFirst(ok, prev, pieceId, newPiece) ==
    IF ok THEN ReplacePiece(prev, pieceId, newPiece) ELSE RemoveFrom(prev, pieceId)

\* handleDrop's `pieces` after the bounds check: setPieces runs only past it
PiecesAfterDrop(ok, prev, pieceId, newPiece) ==
    IF ok THEN ReplacePiece(prev, pieceId, newPiece) ELSE prev

\* Grid.handleDrop(item, clientOffset), run by the registered drop handler:
\* `pieces` read through the closure is dropPieces, the updaters see the state.
handleDrop(item, clientOffset) ==
    IF ~ ValidPattern(item.pattern)
    THEN /\ UNCHANGED <<gridVars, nextId>>
         /\ lastOp' = [op |-> "drop", valid |-> FALSE, ok |-> FALSE]
    ELSE IF editionMode
    THEN LET cell == DropCell(clientOffset)
             cellId == <<cell.row, cell.col>>
             ok == CellInRange(cell, rows, cols)
         IN  /\ cellMinis' = IF ok
                             THEN MapSet(cellMinis, cellId,
                                         [pattern |-> item.pattern, color |-> item.color])
                             ELSE cellMinis
             /\ markedCells' = IF ok THEN UnmarkCell(markedCells, cellId)
                               ELSE markedCells
             /\ UNCHANGED <<pieces, walls, nextId>>
             /\ lastOp' = [op |-> "drop", valid |-> TRUE, ok |-> ok, at |-> cell,
                           pointer |-> clientOffset,
                           hadMarker |-> cellId \in markedCells,
                           hadMini |-> cellId \in DOMAIN cellMinis]
    ELSE LET origin == DropOrigin(item, clientOffset)
             ok == Fits(item.pattern, origin.row, origin.col, rows, cols)
             newPiece == NewPiece(item, origin, dropPieces, PieceId(nextId))
         IN  /\ pieces' = PiecesAfterDrop(ok, pieces, item.pieceId, newPiece)
             /\ nextId' = IF ok /\ item.pieceId = NoId THEN nextId + 1 ELSE nextId
             /\ UNCHANGED <<walls, markedCells, cellMinis>>
             /\ lastOp' = [op |-> "drop", valid |-> TRUE, ok |-> ok, at |-> origin,
                           pointer |-> clientOffset,
                           old |-> FindPiece(pieces, item.pieceId)]

\* A palette shape starts a drag: its item carries no pieceId.
BeginDragPalette(I) ==
    /\ Tick
    /\ UNCHANGED appVars
    /\ drag = NoDrag
    /\ editionMode \/ nextId <= MaxIds
    /\ \E type \in I.types, grab \in I.grabs :
          drag' = [src |-> "palette",
                   item |-> [type |-> type, pattern |-> palette[type],
                             color |-> ShapeOf(type).color, pieceId |-> NoId,
                             pointerOffset |-> grab],
                   didDrop |-> FALSE, placed |-> FALSE]
    /\ lastOp' = [op |-> "dragStart"]
    /\ UNCHANGED <<rows, cols, editionMode, gridVars, palette, dropPieces, nextId>>

\* PieceOverlay.useDrag item: a placed piece starts a drag (overlays exist only
\* while edition mode is off).
BeginDragPiece(I) ==
    /\ Tick
    /\ UNCHANGED appVars
    /\ drag = NoDrag
    /\ ~ editionMode
    /\ \E i \in 1..Len(pieces), grab \in I.grabs :
          drag' = [src |-> "piece",
                   item |-> [type |-> pieces[i].type, pattern |-> pieces[i].pattern,
                             color |-> pieces[i].color, pieceId |-> pieces[i].id,
                             pointerOffset |-> grab],
                   didDrop |-> FALSE, placed |-> FALSE]
    /\ lastOp' = [op |-> "dragStart"]
    /\ UNCHANGED <<rows, cols, editionMode, gridVars, palette, dropPieces, nextId>>

\* useDrop's drop: the dragged item is released over the grid container.
DropOnGrid(I) ==
    /\ Tick
    /\ UNCHANGED appVars
    /\ drag # NoDrag
    /\ ~ drag.didDrop
    /\ \E clientOffset \in (IF editionMode THEN I.editPts ELSE I.placePts) :
          handleDrop(drag.item, clientOffset)
    /\ drag' = [drag EXCEPT !.didDrop = TRUE, !.placed = lastOp'.ok]
    /\ UNCHANGED <<rows, cols, editionMode, palette, dropPieces>>

\* The origin getHoverCells computes, from its own copy of the arithmetic
HoverOrigin(item, clientOffset) ==
    LET pattern == item.pattern
        patternCols == Len(pattern[1])
        patternRows == Len(pattern)
        bx0 == MathFloor(item.pointerOffset.x, cellSize + gapSize)
        by0 == MathFloor(item.pointerOffset.y, cellSize + gapSize)
        bx1 == IF bx0 < 0 THEN 0 ELSE bx0
        by1 == IF by0 < 0 THEN 0 ELSE by0
        blockIndexX == IF bx1 >= patternCols THEN patternCols - 1 ELSE bx1
        blockIndexY == IF by1 >= patternRows THEN patternRows - 1 ELSE by1
        xInGrid == clientOffset.x - Rect.left - containerPadding
        yInGrid == clientOffset.y - Rect.top - containerPadding
    IN  [row |-> MathRound(yInGrid, cellSize + gapSize) - blockIndexY,
         col |-> MathRound(xInGrid, cellSize + gapSize) - blockIndexX]

\* getHoverCells(): the cells highlighted while `session` drags over the grid
\* with the pointer at clientOffset
getHoverCells(session, clientOffset) ==
    IF session = NoDrag \/ editionMode
    THEN {}
    ELSE IF ~ ValidPattern(session.item.pattern)
    THEN {}
    ELSE LET pattern == session.item.pattern
             origin == HoverOrigin(session.item, clientOffset)
         IN  {<<origin.row + (i - 1), origin.col + (j - 1)>> :
                  <<i, j>> \in {<<i, j>> \in (1..Len(pattern)) \X (1..Len(pattern[1])) :
                      /\ pattern[i][j] # 0
                      /\ origin.row + (i - 1) >= 0
                      /\ origin.row + (i - 1) < rows
                      /\ origin.col + (j - 1) >= 0
                      /\ origin.col + (j - 1) < cols}}

\* The pointer moves over the grid during a drag: the Grid renders again and
\* computes the hover preview.
Hover(I) ==
    /\ Tick
    /\ UNCHANGED appVars
    /\ drag # NoDrag
    /\ ~ drag.didDrop
    /\ \E clientOffset \in I.placePts :
          lastOp' = [op |-> "hover", pointer |-> clientOffset,
                     cells |-> getHoverCells(drag, clientOffset)]
    /\ UNCHANGED <<rows, cols, editionMode, gridVars, palette, dropPieces, drag,
                   nextId>>

\* Mutant of PiecesAfterEnd: the piece is removed unless the drop placed it.
PiecesAfterEnd_UnlessPlaced(session, prev) ==
    IF session.src = "piece" /\ ~ session.placed
    THEN RemoveFrom(prev, session.item.pieceId)
    ELSE prev

\* Mutant of PiecesAfterEnd: the end of a piece's drag removes it, dropped or not.
PiecesAfterEnd_Always(session, prev) ==
    IF session.src = "piece" THEN RemoveFrom(prev, session.item.pieceId) ELSE prev

\* Mutant of PiecesAfterEnd: a release outside the grid empties the collection.
PiecesAfterEnd_RemovesAll(session, prev) ==
    IF session.src = "piece" /\ ~ session.didDrop THEN <<>> ELSE prev

\* PieceOverlay's end: if (!monitor.didDrop() && onRemove) onRemove()
PiecesAfterEnd(session, prev) ==
    IF session.src = "piece" /\ ~ session.didDrop
    THEN RemoveFrom(prev, session.item.pieceId)
    ELSE prev

\* useDrag's end: the session is over; a placed piece whose drag no drop target
\* handled is removed.
EndDrag ==
    /\ Tick
    /\ UNCHANGED appVars
    /\ drag # NoDrag
    /\ pieces' = PiecesAfterEnd(drag, pieces)
    /\ drag' = NoDrag
    /\ lastOp' = [op |-> "dragEnd", src |-> drag.src, pieceId |-> drag.item.pieceId,
                  didDrop |-> drag.didDrop, placed |-> drag.placed]
    /\ UNCHANGED <<rows, cols, editionMode, walls, markedCells, cellMinis,
                   palette, dropPieces, nextId>>

\* Mutant of RotatePalette: the minis dropped from the shape share its pattern
\* and turn with it.
RotatePalette_RewritesMinis(I) ==
    /\ Tick
    /\ UNCHANGED appVars
    /\ drag = NoDrag
    /\ \E type \in I.types :
          /\ palette' = [palette EXCEPT ![type] = PaletteShape_rotatePattern(palette[type])]
          /\ cellMinis' = [cellId \in DOMAIN cellMinis |->
                              IF cellMinis[cellId].pattern = palette[type]
                              THEN [cellMinis[cellId] EXCEPT !.pattern = palette'[type]]
                              ELSE cellMinis[cellId]]
    /\ lastOp' = [op |-> "rotatePalette"]
    /\ UNCHANGED <<rows, cols, editionMode, pieces, walls, markedCells, dropPieces,
                   drag, nextId>>

\* A click on a palette shape: PaletteShape.handleRotate
RotatePalette(I) ==
    /\ Tick
    /\ UNCHANGED appVars
    /\ drag = NoDrag
    /\ \E type \in I.types :
          palette' = [palette EXCEPT ![type] = PaletteShape_rotatePattern(palette[type])]
    /\ lastOp' = [op |-> "rotatePalette"]
    /\ UNCHANGED <<rows, cols, editionMode, gridVars, dropPieces, drag, nextId>>

\* A click on a piece overlay: rotatePiece(piece.id)
RotatePiece ==
    /\ Tick
    /\ UNCHANGED appVars
    /\ drag = NoDrag
    /\ ~ editionMode
    /\ \E i \in 1..Len(pieces) :
          /\ pieces' = RotateIn(pieces, pieces[i].id)
          /\ lastOp' = [op |-> "rotate", pieceId |-> pieces[i].id]
    /\ UNCHANGED <<rows, cols, editionMode, walls, markedCells, cellMinis,
                   palette, dropPieces, drag, nextId>>

\* removePiece(id), called with any identity
removePiece(I) ==
    /\ Tick
    /\ UNCHANGED appVars
    /\ drag = NoDrag
    /\ \E id \in I.ids :
          /\ pieces' = RemoveFrom(pieces, id)
          /\ lastOp' = [op |-> "removePiece", pieceId |-> id,
                        present |-> \E i \in 1..Len(pieces) : pieces[i].id = id]
    /\ UNCHANGED <<rows, cols, editionMode, walls, markedCells, cellMinis,
                   palette, dropPieces, drag, nextId>>

\* rotatePiece(id), called with any identity
rotatePiece(I) ==
    /\ Tick
    /\ UNCHANGED appVars
    /\ drag = NoDrag
    /\ \E id \in I.ids :
          /\ pieces' = RotateIn(pieces, id)
          /\ lastOp' = [op |-> "rotatePiece", pieceId |-> id,
                        present |-> \E i \in 1..Len(pieces) : pieces[i].id = id]
    /\ UNCHANGED <<rows, cols, editionMode, walls, markedCells, cellMinis,
                   palette, dropPieces, drag, nextId>>

\* Mutant of ToggleWall: the edges take clicks in both modes.
ToggleWall_AnyMode(I) ==
    /\ Tick
    /\ UNCHANGED appVars
    /\ drag = NoDrag
    /\ \E wallId \in I.walls \cap RenderedEdges(rows, cols) :
          /\ walls' = ToggleIn(walls, wallId)
          /\ lastOp' = [op |-> "toggleWall", id |-> wallId, before |-> walls,
                        again |-> lastOp.op = "toggleWall" /\ lastOp.id = wallId,
                        start |-> IF lastOp.op = "toggleWall" THEN lastOp.before
                                  ELSE walls]
    /\ UNCHANGED <<rows, cols, editionMode, pieces, markedCells, cellMinis,
                   palette, dropPieces, drag, nextId>>

\* A click on an edge in edition mode: toggleWall(wallId)
ToggleWall(I) ==
    /\ Tick
    /\ UNCHANGED appVars
    /\ drag = NoDrag
    /\ editionMode
    /\ \E wallId \in I.walls \cap RenderedEdges(rows, cols) :
          /\ walls' = ToggleIn(walls, wallId)
          /\ lastOp' = [op |-> "toggleWall", id |-> wallId, before |-> walls,
                        again |-> lastOp.op = "toggleWall" /\ lastOp.id = wallId,
                        start |-> IF lastOp.op = "toggleWall" THEN lastOp.before
                                  ELSE walls]
    /\ UNCHANGED <<rows, cols, editionMode, pieces, markedCells, cellMinis,
                   palette, dropPieces, drag, nextId>>

\* toggleMarkedCell: the mini of the cell, if any, is deleted
MinisAfterToggle(minis, cellId) ==
    IF cellId \in DOMAIN minis THEN MapDelete(minis, cellId) ELSE minis

\* Mutant of MarkedAfterToggle: no return after the mini is deleted.
MarkedAfterToggle_NoReturn(minis, marked, cellId) == ToggleIn(marked, cellId)

\* toggleMarkedCell: the marker is toggled only when the cell holds no mini
MarkedAfterToggle(minis, marked, cellId) ==
    IF cellId \in DOMAIN minis THEN marked ELSE ToggleIn(marked, cellId)

\* Mutant of ToggleMarkedCell: the click also erases the walls.
ToggleMarkedCell_ErasesWalls(I) ==
    /\ Tick
    /\ UNCHANGED appVars
    /\ drag = NoDrag
    /\ editionMode
    /\ \E cellId \in I.cells \cap RenderedCells(rows, cols) :
          /\ cellMinis' = MinisAfterToggle(cellMinis, cellId)
          /\ markedCells' = MarkedAfterToggle(cellMinis, markedCells, cellId)
          /\ lastOp' = [op |-> "toggleMark", id |-> cellId,
                        hadMini |-> cellId \in DOMAIN cellMinis,
                        afterMini |-> /\ lastOp.op = "toggleMark"
                                      /\ lastOp.id = cellId
                                      /\ lastOp.hadMini]
    /\ walls' = {}
    /\ UNCHANGED <<rows, cols, editionMode, pieces, palette, dropPieces, drag,
                   nextId>>

\* A click on a cell in edition mode: toggleMarkedCell(cellId)
ToggleMarkedCell(I) ==
    /\ Tick
    /\ UNCHANGED appVars
    /\ drag = NoDrag
    /\ editionMode
    /\ \E cellId \in I.cells \cap RenderedCells(rows, cols) :
          /\ cellMinis' = MinisAfterToggle(cellMinis, cellId)
          /\ markedCells' = MarkedAfterToggle(cellMinis, markedCells, cellId)
          /\ lastOp' = [op |-> "toggleMark", id |-> cellId,
                        hadMini |-> cellId \in DOMAIN cellMinis,
                        afterMini |-> /\ lastOp.op = "toggleMark"
                                      /\ lastOp.id = cellId
                                      /\ lastOp.hadMini]
    /\ UNCHANGED <<rows, cols, editionMode, pieces, walls, palette, dropPieces, drag,
                   nextId>>

\* Mutant of ClearGrid: the minis are not reset.
ClearGrid_KeepsMinis ==
    /\ Tick
    /\ UNCHANGED appVars
    /\ drag = NoDrag
    /\ pieces' = <<>>
    /\ walls' = {}
    /\ markedCells' = {}
    /\ lastOp' = [op |-> "clear",
                  full |-> /\ pieces # <<>>
                           /\ walls # {}
                           /\ markedCells # {}
                           /\ DOMAIN cellMinis # {}]
    /\ UNCHANGED <<rows, cols, editionMode, cellMinis, palette, dropPieces, drag,
                   nextId>>

\* The Clear Grid button
ClearGrid ==
    /\ Tick
    /\ UNCHANGED appVars
    /\ drag = NoDrag
    /\ pieces' = <<>>
    /\ walls' = {}
    /\ markedCells' = {}
    /\ cellMinis' = EmptyMap
    /\ lastOp' = [op |-> "clear",
                  full |-> /\ pieces # <<>>
                           /\ walls # {}
                           /\ markedCells # {}
                           /\ DOMAIN cellMinis # {}]
    /\ UNCHANGED <<rows, cols, editionMode, palette, dropPieces, drag, nextId>>

\* Mutant of ToggleEditionMode: leaving or entering the mode drops the markers.
ToggleEditionMode_ClearsMarks ==
    /\ Tick
    /\ UNCHANGED appVars
    /\ drag = NoDrag
    /\ editionMode' = ~ editionMode
    /\ dropPieces' = pieces
    /\ markedCells' = {}
    /\ lastOp' = [op |-> "toggleEdition"]
    /\ UNCHANGED <<rows, cols, pieces, walls, cellMinis, palette, drag, nextId>>

\* The Edition Mode button: App re-renders the Grid with the new mode, and the
\* drop handler is registered again (editionMode is one of useDrop's deps),
\* closing over the pieces of that render.
ToggleEditionMode ==
    /\ Tick
    /\ UNCHANGED appVars
    /\ drag = NoDrag
    /\ editionMode' = ~ editionMode
    /\ dropPieces' = pieces
    /\ lastOp' = [op |-> "toggleEdition"]
    /\ UNCHANGED <<rows, cols, gridVars, palette, drag, nextId>>

\* Mutant of Resize: the new Grid inherits the walls of the old one.
Resize_KeepsWalls(newRows, newCols) ==
    /\ rows' = newRows
    /\ cols' = newCols
    /\ IF newRows # rows \/ newCols # cols
       THEN /\ pieces' = <<>>
            /\ markedCells' = {}
            /\ cellMinis' = EmptyMap
            /\ dropPieces' = <<>>
            /\ UNCHANGED walls
       ELSE UNCHANGED <<gridVars, dropPieces>>
    /\ lastOp' = [op |-> "resize", changed |-> (newRows # rows \/ newCols # cols),
                  full |-> /\ pieces # <<>>
                           /\ walls # {}
                           /\ markedCells # {}
                           /\ DOMAIN cellMinis # {}]
    /\ UNCHANGED <<editionMode, palette, drag, nextId>>

\* The Grid is keyed by `${rows}x${cols}`: a new size mounts a new Grid.
Resize(newRows, newCols) ==
    /\ rows' = newRows
    /\ cols' = newCols
    /\ IF newRows # rows \/ newCols # cols
       THEN /\ pieces' = <<>>
            /\ walls' = {}
            /\ markedCells' = {}
            /\ cellMinis' = EmptyMap
            /\ dropPieces' = <<>>
       ELSE UNCHANGED <<gridVars, dropPieces>>
    /\ lastOp' = [op |-> "resize", changed |-> (newRows # rows \/ newCols # cols),
                  full |-> /\ pieces # <<>>
                           /\ walls # {}
                           /\ markedCells # {}
                           /\ DOMAIN cellMinis # {}]
    /\ UNCHANGED <<editionMode, palette, drag, nextId>>

\* onChange of the Rows field
SetGridRows(I) ==
    /\ Tick
    /\ UNCHANGED appVars
    /\ drag = NoDrag
    /\ \E v \in I.sizes : Resize(ClampGridSize(v), cols)

\* onChange of the Columns field
SetGridCols(I) ==
    /\ Tick
    /\ UNCHANGED appVars
    /\ drag = NoDrag
    /\ \E v \in I.sizes : Resize(rows, ClampGridSize(v))

\* Everything of the grid and of a drag in progress.
boardVars == <<rows, cols, editionMode, gridVars, dropPieces, drag, nextId>>

\* A click on "Create New Shape": onOpenChange(true)
OpenCreator ==
    /\ Tick
    /\ ~ creator.isOpen
    /\ creator' = [creator EXCEPT !.isOpen = TRUE]
    /\ lastOp' = [op |-> "openCreator"]
    /\ UNCHANGED <<boardVars, palette, customShapes, nextShapeId, storage, mount>>

\* A click on a cell of the pattern grid: toggleCell(row, col)
toggleCell(I) ==
    /\ Tick
    /\ creator.isOpen
    /\ \E cell \in I.editorCells :
          /\ cell[1] < Len(creator.pattern)
          /\ cell[2] < Len(creator.pattern[1])
          /\ creator' = [creator EXCEPT
                            !.pattern = ToggledCell(creator.pattern, cell[1], cell[2])]
          /\ lastOp' = [op |-> "toggleCell", cell |-> cell]
    /\ UNCHANGED <<boardVars, palette, customShapes, nextShapeId, storage, mount>>

\* A click on "Clear Pattern"
ClearPattern ==
    /\ Tick
    /\ creator.isOpen
    /\ creator' = [creator EXCEPT !.pattern = ZeroMatrix(EditorSize, EditorSize)]
    /\ lastOp' = [op |-> "clearPattern"]
    /\ UNCHANGED <<boardVars, palette, customShapes, nextShapeId, storage, mount>>

\* The colour input: setSelectedColor(e.target.value)
setSelectedColor(I) ==
    /\ Tick
    /\ creator.isOpen
    /\ \E color \in I.colors : creator' = [creator EXCEPT !.selectedColor = color]
    /\ lastOp' = [op |-> "selectColor"]
    /\ UNCHANGED <<boardVars, palette, customShapes, nextShapeId, storage, mount>>

\* ShapeCreator.handleSaveShape: the trimmed pattern goes to App.handleSaveShape
\* under the id of the shape being edited or under a fresh one, then
\* resetForm() and setIsOpen(false).  Date.now() is the number of the step.
ShapeCreator_handleSaveShape ==
    /\ Tick
    /\ creator.isOpen
    /\ creator.editingShape = NoShape => nextShapeId <= MaxShapes
    /\ LET fresh == creator.editingShape = NoShape
           newShape == [id |-> IF fresh THEN ShapeId(nextShapeId)
                               ELSE creator.editingShape.id,
                        pattern |-> trimPattern(creator.pattern),
                        color |-> creator.selectedColor,
                        createdAt |-> IF fresh THEN steps
                                      ELSE creator.editingShape.createdAt]
       IN  /\ customShapes' = App_handleSaveShape(customShapes, newShape)
           /\ palette' = PaletteAfter(customShapes')
           /\ nextShapeId' = IF fresh THEN nextShapeId + 1 ELSE nextShapeId
           /\ lastOp' = [op |-> "saveShape", shape |-> newShape,
                         editor |-> creator.pattern]
    /\ creator' = NewForm
    /\ storage' = JSON_stringify(customShapes')
    /\ UNCHANGED <<boardVars, mount>>

\* "Cancel": handleClose
handleClose ==
    /\ Tick
    /\ creator.isOpen
    /\ creator' = NewForm
    /\ lastOp' = [op |-> "closeCreator"]
    /\ UNCHANGED <<boardVars, palette, customShapes, nextShapeId, storage, mount>>

\* The dialog is dismissed (Escape, overlay, close icon): onOpenChange(false)
\* is setIsOpen alone, the form is not reset.
DismissCreator ==
    /\ Tick
    /\ creator.isOpen
    /\ creator' = [creator EXCEPT !.isOpen = FALSE]
    /\ lastOp' = [op |-> "dismissCreator"]
    /\ UNCHANGED <<boardVars, palette, customShapes, nextShapeId, storage, mount>>

\* ShapeCreator.handleEditShape(shape) applied to a shape of the catalog.  No
\* element of the user interface is bound to it; it is the one way a save
\* carries the id of an existing shape.
ShapeCreator_handleEditShape ==
    /\ Tick
    /\ \E i \in 1..Len(customShapes) :
          creator' = [isOpen |-> TRUE,
                      selectedColor |-> customShapes[i].color,
                      pattern |-> customShapes[i].pattern,
                      editingShape |-> customShapes[i]]
    /\ lastOp' = [op |-> "editShape"]
    /\ UNCHANGED <<boardVars, palette, customShapes, nextShapeId, storage, mount>>

\* The delete button of a custom shape: handleDeleteShape(shape.id)
handleDeleteShape ==
    /\ Tick
    /\ \E i \in 1..Len(customShapes) :
          /\ customShapes' = App_handleDeleteShape(customShapes, customShapes[i].id)
          /\ lastOp' = [op |-> "deleteShape", id |-> customShapes[i].id]
    /\ palette' = PaletteAfter(customShapes')
    /\ storage' = JSON_stringify(customShapes')
    /\ UNCHANGED <<boardVars, creator, nextShapeId, mount>>

\* The state of the Grid and of the drag layer as constructed.
FreshBoard ==
    /\ rows' = InitialGridSize
    /\ cols' = InitialGridSize
    /\ editionMode' = FALSE
    /\ pieces' = <<>>
    /\ walls' = {}
    /\ markedCells' = {}
    /\ cellMinis' = EmptyMap
    /\ dropPieces' = <<>>
    /\ drag' = NoDrag

\* The page is loaded again: App is constructed anew (customShapes is [], the
\* first render is committed, its effects are still to run); localStorage
\* keeps its item.  `before` records the item found at that moment.
Reload ==
    /\ Tick
    /\ mount.phase = "done"
    /\ FreshBoard
    /\ customShapes' = <<>>
    /\ creator' = NewForm
    /\ palette' = [type \in {shape.type : shape \in Shapes} |->
                     (CHOOSE shape \in Shapes : shape.type = type).pattern]
    /\ mount' = [phase |-> "rendered", queued |-> NoUpdate, before |-> storage]
    /\ lastOp' = [op |-> "reload"]
    /\ UNCHANGED <<storage, nextId, nextShapeId>>

\* The first effect of App, run after the first commit: the stored item, when
\* there is one, is parsed and handed to setCustomShapes, which queues the
\* update for the next render.
LoadEffect ==
    /\ mount.phase = "rendered"
    /\ mount' = [mount EXCEPT !.phase = "loaded",
                              !.queued = IF storage.text
                                         THEN [pending |-> TRUE,
                                               value |-> JSON_parse(storage)]
                                         ELSE NoUpdate]
    /\ lastOp' = [op |-> "loadEffect"]
    /\ UNCHANGED <<boardVars, palette, customShapes, creator, nextShapeId,
                   storage, steps>>

\* The second effect of App, run after a commit in which customShapes is new
\* (the first commit, and the commit of the queued update): the customShapes
\* of that render is written to localStorage.
SaveEffect ==
    /\ mount.phase \in {"loaded", "rerendered"}
    /\ storage' = JSON_stringify(customShapes)
    /\ mount' = [mount EXCEPT !.phase = IF mount.queued.pending
                                        THEN "saved" ELSE "done"]
    /\ lastOp' = [op |-> "saveEffect", first |-> mount.phase = "loaded"]
    /\ UNCHANGED <<boardVars, palette, customShapes, creator, nextShapeId, steps>>

\* The render of the update the load effect queued: customShapes becomes the
\* parsed catalog and its palette shapes mount.
Rerender ==
    /\ mount.phase = "saved"
    /\ customShapes' = mount.queued.value
    /\ palette' = PaletteAfter(customShapes')
    /\ mount' = [mount EXCEPT !.phase = "rerendered", !.queued = NoUpdate]
    /\ lastOp' = [op |-> "rerender"]
    /\ UNCHANGED <<boardVars, creator, nextShapeId, storage, steps>>

----------------------------------------------------------------------------
(* Specifications *)

\* The inputs of the handlers.  Placement-mode pointers lie over columns 3 and
\* 4 of row 0, edition-mode pointers over columns 0, 1 and 5 (past the last
\* column of the initial 5x5 grid); a shape is grabbed in its first or in its
\* second block; clicks go to two cells and two edges; the size fields take 0
\* and 5.
Inputs ==
    [types |-> {"I2", "L3"},
     grabs |-> {[x |-> 10, y |-> 10], [x |-> 40, y |-> 40]},
     placePts |-> {At(113, 10), At(148, 10)},
     editPts |-> {At(10, 10), At(45, 10), At(180, 10)},
     cells |-> {<<0, 0>>, <<0, 1>>},
     walls |-> {<<"v", 0, 0>>, <<"h", 5, 4>>},
     sizes |-> {0, 5}]

Next ==
    \/ BeginDragPalette(Inputs)
    \/ BeginDragPiece(Inputs)
    \/ DropOnGrid(Inputs)
    \/ EndDrag
    \/ RotatePalette(Inputs)
    \/ RotatePiece
    \/ ToggleWall(Inputs)
    \/ ToggleMarkedCell(Inputs)
    \/ ClearGrid
    \/ ToggleEditionMode
    \/ SetGridRows(Inputs)
    \/ SetGridCols(Inputs)

Spec == Init /\ [][Next]_vars

----------------------------------------------------------------------------
(* Drag sessions in placement mode, with the pointer moving over the grid.  The
   shapes are grabbed in their first block, in the block below it or in the
   block right of it; the pointer is in the right part of cell (0,2), in the
   lower part of cell (2,1) and over the last cell (4,4). *)

DragInputs ==
    [types |-> {"I2", "L3"},
     grabs |-> {[x |-> 10, y |-> 10], [x |-> 10, y |-> 40], [x |-> 40, y |-> 10]},
     placePts |-> {At(98, 10), At(58, 98), At(148, 150)},
     editPts |-> {}]

NextDrag ==
    \/ BeginDragPalette(DragInputs)
    \/ BeginDragPiece(DragInputs)
    \/ Hover(DragInputs)
    \/ DropOnGrid(DragInputs)
    \/ EndDrag
    \/ RotatePalette(DragInputs)

SpecDrag == Init /\ [][NextDrag]_vars

----------------------------------------------------------------------------
(* removePiece and rotatePiece called with any identity, of a piece of the
   collection or of none: pieces are dropped from the palette onto row 0, and
   the two functions are applied to the identities generated and to one that
   is never generated. *)

PieceInputs ==
    [types |-> {"I2", "L3"},
     grabs |-> {[x |-> 10, y |-> 10]},
     placePts |-> {At(113, 10), At(148, 10)},
     editPts |-> {},
     ids |-> {PieceId(n) : n \in 1..(MaxIds + 1)}]

NextPieces ==
    \/ BeginDragPalette(PieceInputs)
    \/ DropOnGrid(PieceInputs)
    \/ EndDrag
    \/ removePiece(PieceInputs)
    \/ rotatePiece(PieceInputs)

SpecPieces == Init /\ [][NextPieces]_vars

----------------------------------------------------------------------------
(* Drops of patterns that are not rectangular 0/1 matrices.  The creator only
   saves trimmed patterns; the catalog App loads from localStorage is whatever
   JSON the key holds (setCustomShapes(JSON.parse(saved)), no validation), so
   the stored catalog is the way such a pattern reaches the palette.  Init
   draws a stored catalog of one shape whose pattern has no rows, one row of
   no columns, or rows of two lengths. *)

StoredPatterns == {<<>>, <<<<>>>>, <<<<1>>, <<1, 1>>>>}

InitStored ==
    /\ rows = InitialGridSize
    /\ cols = InitialGridSize
    /\ editionMode = FALSE
    /\ pieces = <<>>
    /\ walls = {}
    /\ markedCells = {}
    /\ cellMinis = EmptyMap
    /\ \E stored \in StoredPatterns :
          /\ customShapes = <<[id |-> ShapeId(1), pattern |-> stored,
                               color |-> DefaultColor, createdAt |-> 1]>>
          /\ palette = [type \in {shape.type : shape \in Shapes} \cup {ShapeId(1)} |->
                           IF type = ShapeId(1) THEN stored
                           ELSE (CHOOSE shape \in Shapes : shape.type = type).pattern]
    /\ dropPieces = <<>>
    /\ drag = NoDrag
    /\ nextId = 1
    /\ lastOp = [op |-> "mount"]
    /\ steps = 0
    /\ creator = NewForm
    /\ nextShapeId = 2
    /\ storage = JSON_stringify(customShapes)
    /\ mount = Mounted

StoredInputs ==
    [types |-> {"I2", ShapeId(1)},
     grabs |-> {[x |-> 10, y |-> 10]},
     placePts |-> {At(10, 10), At(113, 45)},
     editPts |-> {At(10, 10), At(113, 45)}]

NextStored ==
    \/ BeginDragPalette(StoredInputs)
    \/ DropOnGrid(StoredInputs)
    \/ EndDrag
    \/ ToggleEditionMode

SpecStored == InitStored /\ [][NextStored]_vars

----------------------------------------------------------------------------
(* Edition-mode drops at pointers in the first and in the second half of a
   cell: relative to the first cell of the 5x5 grid the pointers are (15,15),
   the centre of cell (0,0); (20,15), inside cell (0,0) right of its centre;
   (50,85), the centre of cell (2,1); and (160,150), inside the last cell
   (4,4), which spans 140..170 on both axes. *)

EditionInputs ==
    [types |-> {"I2", "L3"},
     grabs |-> {[x |-> 10, y |-> 10]},
     placePts |-> {At(23, 23)},
     editPts |-> {At(23, 23), At(28, 23), At(58, 93), At(168, 158)}]

NextEdition ==
    \/ ToggleEditionMode
    \/ BeginDragPalette(EditionInputs)
    \/ DropOnGrid(EditionInputs)
    \/ EndDrag

SpecEdition == Init /\ [][NextEdition]_vars

----------------------------------------------------------------------------
(* The catalog across page loads: App mounts in a browser whose localStorage
   has no item yet; once the mount is over shapes are saved, edited and
   deleted, and the page is loaded again. *)

InitMount ==
    /\ rows = InitialGridSize
    /\ cols = InitialGridSize
    /\ editionMode = FALSE
    /\ pieces = <<>>
    /\ walls = {}
    /\ markedCells = {}
    /\ cellMinis = EmptyMap
    /\ palette = [type \in {shape.type : shape \in Shapes} |->
                    (CHOOSE shape \in Shapes : shape.type = type).pattern]
    /\ dropPieces = <<>>
    /\ drag = NoDrag
    /\ nextId = 1
    /\ lastOp = [op |-> "mount"]
    /\ steps = 0
    /\ customShapes = <<>>
    /\ creator = NewForm
    /\ nextShapeId = 1
    /\ storage = NoItem
    /\ mount = [phase |-> "rendered", queued |-> NoUpdate, before |-> NoItem]

MountInputs ==
    [editorCells |-> {<<0, 0>>, <<1, 1>>},
     colors |-> {"#00ff00"}]

\* The handlers of the interface run once the mount is over.
MountedNext ==
    /\ mount.phase = "done"
    /\ \/ OpenCreator
       \/ toggleCell(MountInputs)
       \/ ShapeCreator_handleSaveShape
       \/ handleDeleteShape
       \/ Reload

NextMount ==
    \/ LoadEffect
    \/ SaveEffect
    \/ Rerender
    \/ MountedNext

SpecMount == InitMount /\ [][NextMount]_vars

----------------------------------------------------------------------------
(* The two size fields, fed integers below, inside and above the limits. *)

SizeInputs == [sizes |-> {-3, 0, 7, 11, 250}]

NextSize ==
    \/ SetGridRows(SizeInputs)
    \/ SetGridCols(SizeInputs)

SpecSize == Init /\ [][NextSize]_vars

----------------------------------------------------------------------------
(* The shape editor as the function it applies on save.  The initial state has
   the dialog open on a 6x6 matrix whose set cells lie in a region of
   MaxEditorRows x MaxEditorCols cells, at the top-left corner or away from
   every border; every 0/1 filling of the region is drawn. *)

EditorRegions == [1..MaxEditorRows -> [1..MaxEditorCols -> {0, 1}]]

EditorOffsets == {<<0, 0>>, <<2, 1>>}

Embedded(region, offset) ==
    [i \in 1..EditorSize |->
       [j \in 1..EditorSize |->
          IF /\ (i - offset[1]) \in 1..Len(region)
             /\ (j - offset[2]) \in 1..Len(region[1])
          THEN region[i - offset[1]][j - offset[2]]
          ELSE 0]]

InitEditor ==
    /\ rows = InitialGridSize
    /\ cols = InitialGridSize
    /\ editionMode = FALSE
    /\ pieces = <<>>
    /\ walls = {}
    /\ markedCells = {}
    /\ cellMinis = EmptyMap
    /\ palette = [type \in {shape.type : shape \in Shapes} |->
                    (CHOOSE shape \in Shapes : shape.type = type).pattern]
    /\ dropPieces = <<>>
    /\ drag = NoDrag
    /\ nextId = 1
    /\ lastOp = [op |-> "mount"]
    /\ steps = 0
    /\ customShapes = <<>>
    /\ \E region \in EditorRegions, offset \in EditorOffsets :
          creator = [NewForm EXCEPT !.isOpen = TRUE,
                                    !.pattern = Embedded(region, offset)]
    /\ nextShapeId = 1
    /\ storage = JSON_stringify(customShapes)
    /\ mount = Mounted

EditorInputs == [editorCells |-> {<<5, 5>>}]

NextEditor ==
    \/ OpenCreator
    \/ toggleCell(EditorInputs)
    \/ ShapeCreator_handleSaveShape

SpecEditor == InitEditor /\ [][NextEditor]_vars

----------------------------------------------------------------------------
(* The catalog of custom shapes: the editor's dialog, save, edit and delete,
   from the state App mounts in. *)

CatalogInputs ==
    [editorCells |-> {<<0, 0>>, <<1, 1>>},
     colors |-> {"#00ff00"}]

NextCatalog ==
    \/ OpenCreator
    \/ toggleCell(CatalogInputs)
    \/ ClearPattern
    \/ setSelectedColor(CatalogInputs)
    \/ ShapeCreator_handleSaveShape
    \/ handleClose
    \/ DismissCreator
    \/ ShapeCreator_handleEditShape
    \/ handleDeleteShape

SpecCatalog == Init /\ [][NextCatalog]_vars

----------------------------------------------------------------------------
(* The rotation applied to every pattern: a palette shape of pattern P and a
   piece of that pattern placed at the origin of the grid, for every
   rectangular 0/1 pattern P within the bounds; the shape is turned in the
   palette and the piece on the grid. *)

Patterns ==
    UNION {[1..r -> [1..c -> {0, 1}]] : r \in 1..MaxPatternRows,
                                        c \in 1..MaxPatternCols}

InitPatterns ==
    /\ rows = InitialGridSize
    /\ cols = InitialGridSize
    /\ editionMode = FALSE
    /\ \E P \in Patterns :
          /\ palette = [type \in {"custom"} |-> P]
          /\ pieces = <<[id |-> PieceId(1), type |-> "custom", pattern |-> P,
                         originalPattern |-> P, color |-> "purple",
                         row |-> 0, col |-> 0, rotation |-> 0]>>
    /\ walls = {}
    /\ markedCells = {}
    /\ cellMinis = EmptyMap
    /\ dropPieces = <<>>
    /\ drag = NoDrag
    /\ nextId = 2
    /\ lastOp = [op |-> "mount"]
    /\ steps = 0
    /\ customShapes = <<>>
    /\ creator = NewForm
    /\ nextShapeId = 1
    /\ storage = JSON_stringify(customShapes)
    /\ mount = Mounted

PatternInputs == [types |-> {"custom"}]

NextPatterns ==
    \/ RotatePalette(PatternInputs)
    \/ RotatePiece

SpecPatterns == InitPatterns /\ [][NextPatterns]_vars

----------------------------------------------------------------------------
(* Vocabulary of the properties *)

\* The grid cells a placed piece covers.
Footprint(piece) ==
    {<<piece.row + c[1], piece.col + c[2]>> : c \in SetCells(piece.pattern)}

\* The positions of the collection holding identity `id`.
Holders(id) == {i \in 1..Len(pieces) : pieces[i].id = id}

\* The state is the one a placement-mode drop handler has just left.
JustDroppedPiece ==
    lastOp.op = "drop" /\ lastOp.valid /\ ~ editionMode

\* The state is the one an edition-mode drop handler has just left.
JustDroppedMini ==
    lastOp.op = "drop" /\ lastOp.valid /\ editionMode

\* Every set cell of `pattern` placed at `origin` lies inside the grid.
InBounds(pattern, origin) ==
    \A c \in SetCells(pattern) :
        /\ origin.row + c[1] \in 0..(rows - 1)
        /\ origin.col + c[2] \in 0..(cols - 1)

\* The step taken is the drop handler in placement mode.
DropPieceStep == lastOp'.op = "drop" /\ lastOp'.valid /\ ~ editionMode

----------------------------------------------------------------------------
(* C1: no two entries of the piece collection share an identity, and right after
   an accepted drop that carries a pieceId exactly one entry holds that identity
   (never zero, never two), also when the new footprint overlaps the old one. *)
C1_OnePiecePerIdentity ==
    /\ \A i, j \in 1..Len(pieces) : pieces[i].id = pieces[j].id => i = j
    /\ (JustDroppedPiece /\ lastOp.ok /\ drag.item.pieceId # NoId)
          => Cardinality(Holders(drag.item.pieceId)) = 1

\* A piece was moved onto part of its own old footprint while another piece lies
\* on the grid.
C1_MovedOntoOldFootprint ==
    /\ JustDroppedPiece /\ lastOp.ok
    /\ lastOp.old.id # NoId
    /\ Len(pieces) = 2
    /\ pieces[2].id = lastOp.old.id
    /\ <<pieces[2].row, pieces[2].col>> # <<lastOp.old.row, lastOp.old.col>>
    /\ Footprint(pieces[2]) \cap Footprint(lastOp.old) # {}

(* C2: right after an accepted drop, the inserted piece has the rotation and the
   original pattern the piece of that identity had just before the drop; without
   such a piece it has rotation 0 and the dropped pattern as original pattern. *)
C2_MoveKeepsRotationAndOriginal ==
    (JustDroppedPiece /\ lastOp.ok) =>
        LET new == pieces[Len(pieces)]
        IN  IF lastOp.old.id # NoId
            THEN /\ new.rotation = lastOp.old.rotation
                 /\ new.originalPattern = lastOp.old.originalPattern
            ELSE /\ new.rotation = 0
                 /\ new.originalPattern = drag.item.pattern

(* C3: a placement-mode drop is accepted exactly when every set cell of the
   pattern, placed at the computed origin, lies in [0, rows) x [0, cols); an
   accepted drop puts the piece at that origin.  On the 5x5 grid the 1x2
   horizontal pattern is rejected at origin (0,4) and accepted at (0,3). *)
C3_AcceptedIffInBounds ==
    JustDroppedPiece =>
        /\ lastOp.ok <=> InBounds(drag.item.pattern, lastOp.at)
        /\ lastOp.ok =>
              /\ pieces # <<>>
              /\ pieces[Len(pieces)].row = lastOp.at.row
              /\ pieces[Len(pieces)].col = lastOp.at.col
              /\ pieces[Len(pieces)].pattern = drag.item.pattern
        /\ (rows = 5 /\ cols = 5 /\ drag.item.pattern = I2 /\ lastOp.at.row = 0) =>
              /\ lastOp.at.col = 4 => ~ lastOp.ok
              /\ lastOp.at.col = 3 => lastOp.ok

\* On the 5x5 grid the 1x2 pattern has just been rejected at origin (0,4), while
\* two overlapping pieces lie on the grid, one of them the 1x2 pattern at (0,3).
C3_RejectedAtLastColumn ==
    /\ JustDroppedPiece /\ ~ lastOp.ok
    /\ rows = 5 /\ cols = 5
    /\ drag.item.pattern = I2
    /\ lastOp.at = [row |-> 0, col |-> 4]
    /\ Len(pieces) = 2
    /\ Footprint(pieces[1]) \cap Footprint(pieces[2]) # {}
    /\ \E i \in 1..2 : pieces[i].pattern = I2 /\ pieces[i].row = 0 /\ pieces[i].col = 3

(* C4: a placement-mode drop whose pattern does not lie inside the grid at the
   computed origin leaves the pieces, the walls, the marked cells and the minis
   as they were. *)
C4_RejectedDropChangesNothing ==
    [][(DropPieceStep /\ ~ InBounds(drag.item.pattern, lastOp'.at))
          => /\ pieces' = pieces
             /\ walls' = walls
             /\ markedCells' = markedCells
             /\ cellMinis' = cellMinis]_vars

\* A dragged piece has just been rejected and its old entry is still in the
\* collection, with a wall drawn and a cell marked.
C4_RejectedMoveKeepsOldEntry ==
    /\ JustDroppedPiece /\ ~ lastOp.ok
    /\ drag.src = "piece"
    /\ lastOp.old.id # NoId
    /\ \E i \in 1..Len(pieces) : pieces[i] = lastOp.old
    /\ walls # {}
    /\ markedCells # {}

(* C5, as claimed: when the drag session of a placed piece has ended, either the
   piece was placed by the drop or it is no longer in the collection, and not
   both. *)
C5_PlacedOrRemoved ==
    (lastOp.op = "dragEnd" /\ lastOp.src = "piece") =>
        (lastOp.placed <=> Holders(lastOp.pieceId) # {})

(* C5, amended: when the drag session of a placed piece has ended, the piece is
   absent from the collection exactly when no drop target took the drop; a drop
   that placed it was taken by the grid, and a drop the grid took and rejected
   leaves the piece in the collection. *)
C5_RemovedIffNotDropped ==
    (lastOp.op = "dragEnd" /\ lastOp.src = "piece") =>
        /\ lastOp.didDrop <=> Cardinality(Holders(lastOp.pieceId)) = 1
        /\ ~ lastOp.didDrop <=> Holders(lastOp.pieceId) = {}
        /\ lastOp.placed => lastOp.didDrop

\* A session has ended whose drop the grid took and rejected: the piece is still
\* in the collection.
C5_RejectedDropKeepsPiece ==
    /\ lastOp.op = "dragEnd" /\ lastOp.src = "piece"
    /\ lastOp.didDrop /\ ~ lastOp.placed
    /\ Holders(lastOp.pieceId) # {}

(* C6: no cell is at the same time a marked cell and the key of a mini. *)
C6_MarkerXorMini == markedCells \cap DOMAIN cellMinis = {}

\* A mini has just been dropped onto a cell that was marked.
C6_MiniDroppedOnMarker ==
    /\ JustDroppedMini /\ lastOp.ok
    /\ lastOp.hadMarker
    /\ <<lastOp.at.row, lastOp.at.col>> \in DOMAIN cellMinis

\* The step taken is toggleMarkedCell.
ToggleMarkStep == lastOp'.op = "toggleMark"

\* Everywhere but at `cellId`, the markers and the minis are as they were.
OtherCellsUnchanged(cellId) ==
    /\ markedCells' \ {cellId} = markedCells \ {cellId}
    /\ DOMAIN cellMinis' \ {cellId} = DOMAIN cellMinis \ {cellId}
    /\ \A k \in DOMAIN cellMinis \ {cellId} : cellMinis'[k] = cellMinis[k]

(* C7: toggleMark on a cell holding a mini deletes the mini, leaves the marker
   set as it was and the cell unmarked; on a cell without mini it flips the
   cell's marker and adds no mini; no other cell changes; and the toggle that
   follows the deletion of a mini on the same cell marks the cell. *)
C7_ToggleMark ==
    [][ToggleMarkStep =>
          LET cellId == lastOp'.id
          IN  /\ IF cellId \in DOMAIN cellMinis
                 THEN /\ cellId \notin DOMAIN cellMinis'
                      /\ markedCells' = markedCells
                      /\ cellId \notin markedCells'
                 ELSE /\ cellId \notin DOMAIN cellMinis'
                      /\ cellId \in markedCells' <=> cellId \notin markedCells
              /\ OtherCellsUnchanged(cellId)
              /\ lastOp'.afterMini => cellId \in markedCells']_vars

\* The second of two toggles on a cell that held a mini has marked it, while the
\* other cell holds a mini.
C7_SecondToggleMarks ==
    /\ lastOp.op = "toggleMark" /\ lastOp.afterMini
    /\ lastOp.id \in markedCells
    /\ DOMAIN cellMinis # {}

\* The step taken is the drop handler in edition mode.
DropMiniStep == lastOp'.op = "drop" /\ lastOp'.valid /\ editionMode

(* C8: an edition-mode drop onto a cell of the grid leaves that cell with a mini
   of the dropped pattern and color and without marker; the markers and minis of
   every other cell are as they were. *)
C8_DropMini ==
    [][(/\ DropMiniStep
        /\ lastOp'.at.row \in 0..(rows - 1)
        /\ lastOp'.at.col \in 0..(cols - 1)) =>
          LET cellId == <<lastOp'.at.row, lastOp'.at.col>>
          IN  /\ cellId \in DOMAIN cellMinis'
              /\ cellMinis'[cellId] = [pattern |-> drag.item.pattern,
                                       color |-> drag.item.color]
              /\ cellId \notin markedCells'
              /\ OtherCellsUnchanged(cellId)]_vars

\* A mini has just replaced the mini of its cell, while another cell is
\* marked.
C8_MiniOverwritten ==
    /\ JustDroppedMini /\ lastOp.ok
    /\ lastOp.hadMini
    /\ cellMinis[<<lastOp.at.row, lastOp.at.col>>].color = drag.item.color
    /\ markedCells # {}

(* C9: toggleWall(id) flips the membership of id in the wall set and of no other
   wall, and the second of two toggleWall(id) in a row leaves the wall set it
   was before the first. *)
C9_ToggleWall ==
    lastOp.op = "toggleWall" =>
        /\ lastOp.id \in walls <=> lastOp.id \notin lastOp.before
        /\ walls \ {lastOp.id} = lastOp.before \ {lastOp.id}
        /\ lastOp.again => walls = lastOp.start

\* The same wall has just been toggled twice in a row while another wall is
\* drawn.
C9_ToggledTwice ==
    /\ lastOp.op = "toggleWall" /\ lastOp.again
    /\ walls \ {lastOp.id} # {}
    /\ walls = lastOp.start

(* C10: right after clear() the pieces, the walls, the marked cells and the
   minis are all empty. *)
C10_ClearEmptiesAll ==
    lastOp.op = "clear" =>
        /\ pieces = <<>>
        /\ walls = {}
        /\ markedCells = {}
        /\ DOMAIN cellMinis = {}

\* clear() has just run on a grid that held a piece, a wall, a marker and a mini.
C10_ClearedFullGrid == lastOp.op = "clear" /\ lastOp.full

\* The step taken is the onChange of a size field.
ResizeStep == lastOp'.op = "resize"

(* C11: when a size field changes the clamped row or column count, the pieces,
   the walls, the marked cells and the minis are all empty afterwards; an input
   that clamps to the current value changes neither the size nor any of them.
   The size stays within 1..10. *)
C11_ResizeClears ==
    [][ResizeStep =>
          /\ rows' \in MinGridSize..MaxGridSize
          /\ cols' \in MinGridSize..MaxGridSize
          /\ IF rows' # rows \/ cols' # cols
             THEN /\ pieces' = <<>>
                  /\ walls' = {}
                  /\ markedCells' = {}
                  /\ DOMAIN cellMinis' = {}
             ELSE /\ pieces' = pieces
                  /\ walls' = walls
                  /\ markedCells' = markedCells
                  /\ cellMinis' = cellMinis
                  /\ editionMode' = editionMode]_vars

\* The size has just changed on a grid that held a piece, a wall, a marker and a
\* mini.
C11_ResizedFullGrid ==
    /\ lastOp.op = "resize" /\ lastOp.changed /\ lastOp.full
    /\ rows = MinGridSize

(* C12: every horizontal wall has its row in [0, rows] and its column in
   [0, cols), every vertical wall its row in [0, rows) and its column in
   [0, cols], and every marked cell and every mini key its row in [0, rows) and
   its column in [0, cols), for the current rows and cols. *)
C12_IdentitiesInBounds ==
    /\ \A w \in walls :
          \/ w[1] = "h" /\ w[2] \in 0..rows /\ w[3] \in 0..(cols - 1)
          \/ w[1] = "v" /\ w[2] \in 0..(rows - 1) /\ w[3] \in 0..cols
    /\ \A c \in markedCells \cup DOMAIN cellMinis :
          c[1] \in 0..(rows - 1) /\ c[2] \in 0..(cols - 1)

\* After a resize to one row, with a wall, a marker and a mini on the new grid,
\* a mini has just been dropped past the last column and rejected.
C12_EntriesOnSmallGrid ==
    /\ rows = MinGridSize
    /\ walls # {} /\ markedCells # {} /\ DOMAIN cellMinis # {}
    /\ JustDroppedMini /\ ~ lastOp.ok
    /\ lastOp.at.col = cols

\* Q is P turned by 90 degrees clockwise: Q has as many rows as P has columns
\* and Q[j][R-1-i] = P[i][j] (0-based) for an R x C matrix P.
IsClockwiseTurn(P, Q) ==
    LET R == Len(P)
        C == Len(P[1])
    IN  /\ Len(Q) = C
        /\ \A j \in 1..C : Len(Q[j]) = R
        /\ \A i \in 1..R : \A j \in 1..C : Q[j][R + 1 - i] = P[i][j]

\* The step taken is rotatePiece.
RotateStep == lastOp'.op = "rotate"

(* C13: rotatePiece(id) on a piece of the collection replaces its pattern by the
   clockwise quarter turn of that pattern, sets its rotation to
   (rotation + 90) mod 360, one of 0, 90, 180, 270, and leaves its identity,
   origin, color and original pattern, and every other piece, as they were. *)
C13_RotatePiece ==
    [][RotateStep =>
          /\ Len(pieces') = Len(pieces)
          /\ \E i \in 1..Len(pieces) : pieces[i].id = lastOp'.pieceId
          /\ \A i \in 1..Len(pieces) :
                IF pieces[i].id = lastOp'.pieceId
                THEN /\ IsClockwiseTurn(pieces[i].pattern, pieces'[i].pattern)
                     /\ pieces'[i].rotation = (pieces[i].rotation + 90) % 360
                     /\ pieces'[i].rotation \in {0, 90, 180, 270}
                     /\ pieces'[i].id = pieces[i].id
                     /\ pieces'[i].row = pieces[i].row
                     /\ pieces'[i].col = pieces[i].col
                     /\ pieces'[i].color = pieces[i].color
                     /\ pieces'[i].originalPattern = pieces[i].originalPattern
                ELSE pieces'[i] = pieces[i]]_vars

\* The fourth rotation of the three-block piece has brought its rotation back
\* to 0 and its pattern back to the original, next to another piece.
C13_FullTurn ==
    /\ lastOp.op = "rotate"
    /\ Len(pieces) = 2
    /\ \E i \in 1..2 :
          /\ pieces[i].id = lastOp.pieceId
          /\ pieces[i].rotation = 0
          /\ pieces[i].pattern = L3
          /\ pieces[i].originalPattern = L3

(* C14: for every rectangular pattern with at least one row and one column, four
   applications of the rotation give the pattern back, for the grid's copy and
   for the palette's copy, and the two copies agree on it; so a piece whose
   rotation is back at 0 has its original pattern, and so has the palette shape
   after a multiple of four turns. *)
C14_FourTurnsAreIdentity ==
    LET P == palette["custom"]
        G1 == rotatePattern(P)
        G2 == rotatePattern(G1)
        G3 == rotatePattern(G2)
        G4 == rotatePattern(G3)
        S1 == PaletteShape_rotatePattern(P)
        S2 == PaletteShape_rotatePattern(S1)
        S3 == PaletteShape_rotatePattern(S2)
        S4 == PaletteShape_rotatePattern(S3)
    IN  /\ G4 = P
        /\ S4 = P
        /\ G1 = S1
        /\ pieces[1].rotation = 0 => pieces[1].pattern = pieces[1].originalPattern
        /\ (pieces[1].rotation = 0 /\ steps % 4 = 0)
              => P = pieces[1].originalPattern

\* After eight turns, the last one in the palette, a four-block L of three rows
\* is back in its original position both in the palette and on the grid.
C14_BackAfterFullTurns ==
    /\ steps = 8
    /\ lastOp.op = "rotatePalette"
    /\ pieces[1].rotation = 0
    /\ pieces[1].originalPattern = <<<<1, 0>>, <<1, 0>>, <<1, 1>>>>
    /\ pieces[1].pattern = pieces[1].originalPattern
    /\ palette["custom"] = pieces[1].originalPattern

(* C15: for every R x C pattern P, rotatePattern(P) has C rows of R columns and
   rotatePattern(P)[j][R-1-i] = P[i][j] for all i, j; a piece turned once on the
   grid holds that turn of its original pattern. *)
C15_RotationLaw ==
    LET P == palette["custom"]
        Q == rotatePattern(P)
    IN  /\ Len(Q) = Len(P[1])
        /\ \A j \in 1..Len(Q) : Len(Q[j]) = Len(P)
        /\ \A i \in 1..Len(P) : \A j \in 1..Len(P[1]) :
              Q[j][Len(P) + 1 - i] = P[i][j]
        /\ pieces[1].rotation = 90
              => IsClockwiseTurn(pieces[1].originalPattern, pieces[1].pattern)

\* The four-block L of three rows and two columns has been turned once on the
\* grid: it has two rows and three columns, its foot under its first column.
C15_TurnedL ==
    /\ lastOp.op = "rotate"
    /\ pieces[1].rotation = 90
    /\ pieces[1].originalPattern = <<<<1, 0>>, <<1, 0>>, <<1, 1>>>>
    /\ pieces[1].pattern = <<<<1, 1, 1>>, <<1, 0, 0>>>>

\* The color of the piece latest in the collection among those covering the
\* cell, NoColor when no piece covers it.
TopColor(ps, cell) ==
    LET covering == {i \in 1..Len(ps) : cell \in Footprint(ps[i])}
    IN  IF covering = {}
        THEN NoColor
        ELSE ps[CHOOSE i \in covering : \A k \in covering : k <= i].color

\* The identities of a collection, in its order, `id` left out.
OrderWithout(ps, id) ==
    LET Other(p) == p.id # id
        others == SelectSeq(ps, Other)
    IN  [i \in 1..Len(others) |-> others[i].id]

(* C16: a drop whose pattern lies inside the grid is accepted whatever pieces it
   overlaps and puts the dropped piece last in the collection, the other pieces
   keeping their order (a rotation keeps the order too); and the color reported
   for a cell is the color of the latest piece of the collection among those
   covering it, no color when none covers it (checked in every state a change
   of the collection leads to). *)
C16_LatestPieceOnTop ==
    [][/\ pieces' # pieces =>
             \A cell \in RenderedCells(rows', cols') :
                 getCellColor(pieces', cell[1], cell[2]) = TopColor(pieces', cell)
       /\ (DropPieceStep /\ InBounds(drag.item.pattern, lastOp'.at)) =>
             LET new == pieces'[Len(pieces')]
             IN  /\ lastOp'.ok
                 /\ pieces' # <<>>
                 /\ new.pattern = drag.item.pattern
                 /\ new.color = drag.item.color
                 /\ <<new.row, new.col>> = <<lastOp'.at.row, lastOp'.at.col>>
                 /\ drag.item.pieceId # NoId => new.id = drag.item.pieceId
                 /\ OrderWithout(pieces', new.id) = OrderWithout(pieces, new.id)
                 /\ \A cell \in Footprint(new) :
                       getCellColor(pieces', cell[1], cell[2]) = drag.item.color
       /\ RotateStep => OrderWithout(pieces', NoId) = OrderWithout(pieces, NoId)
      ]_vars

\* The piece placed first has just been moved onto the piece of another color
\* placed second: the cells they share are painted with the color of the moved
\* piece.
C16_MovedPieceOnTop ==
    /\ JustDroppedPiece /\ lastOp.ok
    /\ Len(pieces) = 2
    /\ pieces[2].id = PieceId(1)
    /\ pieces[1].color # pieces[2].color
    /\ Footprint(pieces[1]) \cap Footprint(pieces[2]) # {}
    /\ \A cell \in Footprint(pieces[1]) \cap Footprint(pieces[2]) :
          getCellColor(pieces, cell[1], cell[2]) = pieces[2].color

\* The distance between the origins of two neighbouring cells, S + G.
Pitch == gridCellSize + gridPaddingSize

\* n is v / Pitch rounded to the nearest integer, halves upwards.
IsRounded(n, v) == (2 * n - 1) * Pitch <= 2 * v /\ 2 * v < (2 * n + 1) * Pitch

\* b is floor(g / Pitch) clamped to [0, extent - 1].
IsBlockIndex(b, g, extent) ==
    \E f \in -1..MaxGridSize :
        /\ f * Pitch <= g /\ g < (f + 1) * Pitch
        /\ b = IF f < 0 THEN 0 ELSE IF f > extent - 1 THEN extent - 1 ELSE f

\* The pointer of the last drop, relative to the first cell of the grid.
PointerInGrid ==
    [x |-> lastOp.pointer.x - Rect.left - (gridPaddingSize + 3),
     y |-> lastOp.pointer.y - Rect.top - (gridPaddingSize + 3)]

(* C17: in a placement-mode drop the origin on each axis is
   round((pointer - containerOrigin - P) / (S+G)) - blockIndex, where blockIndex
   is floor(grabOffset / (S+G)) clamped to [0, patternExtent - 1] and P is the
   gap plus 3; with S = 30, G = 5, P = 8 the 2x1 vertical pattern grabbed at
   (10,40) and released at grid-relative (50,90) gets origin row 2, column 1. *)
C17_OriginFormula ==
    JustDroppedPiece =>
        LET pattern == drag.item.pattern
            grab == drag.item.pointerOffset
        IN  /\ \E bx \in 0..(Len(pattern[1]) - 1), by \in 0..(Len(pattern) - 1) :
                  /\ IsBlockIndex(bx, grab.x, Len(pattern[1]))
                  /\ IsBlockIndex(by, grab.y, Len(pattern))
                  /\ IsRounded(lastOp.at.col + bx, PointerInGrid.x)
                  /\ IsRounded(lastOp.at.row + by, PointerInGrid.y)
            /\ (/\ pattern = <<<<1>>, <<1>>>>
                /\ grab = [x |-> 10, y |-> 40]
                /\ PointerInGrid = [x |-> 50, y |-> 90])
                  => lastOp.at = [row |-> 2, col |-> 1] /\ lastOp.ok

\* The 2x1 vertical piece grabbed at (10,40) has just been released at
\* grid-relative (50,90) and lies at row 2, column 1.
C17_ExampleDrop ==
    /\ JustDroppedPiece /\ lastOp.ok
    /\ drag.item.pattern = <<<<1>>, <<1>>>>
    /\ drag.item.pointerOffset = [x |-> 10, y |-> 40]
    /\ PointerInGrid = [x |-> 50, y |-> 90]
    /\ pieces[Len(pieces)].row = 2
    /\ pieces[Len(pieces)].col = 1

(* C18: after an accepted placement-mode drop with the pointer inside the
   rectangle of a grid cell, the block that was grabbed (origin plus block
   index on each axis) lies on that cell. *)
C18_GrabbedBlockUnderPointer ==
    (JustDroppedPiece /\ lastOp.ok) =>
        \A c \in RenderedCells(rows, cols) :
            (/\ c[2] * Pitch <= PointerInGrid.x
             /\ PointerInGrid.x < c[2] * Pitch + gridCellSize
             /\ c[1] * Pitch <= PointerInGrid.y
             /\ PointerInGrid.y < c[1] * Pitch + gridCellSize)
            => /\ lastOp.at.row + BlockIndex(drag.item.pointerOffset.y,
                                             Len(drag.item.pattern)) = c[1]
               /\ lastOp.at.col + BlockIndex(drag.item.pointerOffset.x,
                                             Len(drag.item.pattern[1])) = c[2]

\* The step taken is the drop handler in edition mode, its pointer recorded.
PointerInGridNext ==
    [x |-> lastOp'.pointer.x - Rect.left - (gridPaddingSize + 3),
     y |-> lastOp'.pointer.y - Rect.top - (gridPaddingSize + 3)]

(* C19: in an edition-mode drop the target cell on each axis is
   round((pointer - containerOrigin - P) / (S+G)), whatever the grab offset;
   when that cell is outside [0, rows) x [0, cols) the drop inserts no mini,
   clears no marker and changes no other state of the grid. *)
C19_EditionDropCell ==
    [][DropMiniStep =>
          /\ IsRounded(lastOp'.at.col, PointerInGridNext.x)
          /\ IsRounded(lastOp'.at.row, PointerInGridNext.y)
          /\ lastOp'.ok <=> (/\ lastOp'.at.row \in 0..(rows - 1)
                             /\ lastOp'.at.col \in 0..(cols - 1))
          /\ ~ lastOp'.ok => /\ cellMinis' = cellMinis
                             /\ markedCells' = markedCells
                             /\ pieces' = pieces
                             /\ walls' = walls]_vars

\* On the 5x5 grid a shape grabbed in its second block has just been released
\* past the last column in edition mode, with a marker and a mini on the grid.
C19_RejectedPastLastColumn ==
    /\ JustDroppedMini /\ ~ lastOp.ok
    /\ rows = InitialGridSize /\ cols = InitialGridSize
    /\ lastOp.at.col = cols
    /\ drag.item.pointerOffset = [x |-> 40, y |-> 40]
    /\ markedCells # {} /\ DOMAIN cellMinis # {}

\* The step taken is a pointer move during a drag.
HoverStep == lastOp'.op = "hover"

(* C20: computing the hover preview changes neither pieces, walls, markers nor
   minis, and in placement mode the preview is the set of cells the dragged
   pattern would occupy if dropped at that pointer position: its footprint at
   the drop's origin when the drop would be accepted, empty when it would be
   rejected. *)
C20_PreviewIsDropFootprint ==
    [][HoverStep =>
          LET item == drag.item
              origin == DropOrigin(item, lastOp'.pointer)
          IN  /\ pieces' = pieces
              /\ walls' = walls
              /\ markedCells' = markedCells
              /\ cellMinis' = cellMinis
              /\ lastOp'.cells = getHoverCells(drag, lastOp'.pointer)
              /\ lastOp'.cells =
                    IF Fits(item.pattern, origin.row, origin.col, rows, cols)
                    THEN {<<origin.row + c[1], origin.col + c[2]>> :
                              c \in SetCells(item.pattern)}
                    ELSE {}]_vars

\* The step taken is a click on the Edition Mode button.
ToggleEditionStep == lastOp'.op = "toggleEdition"

(* C21: toggling edition mode on or off flips the mode and leaves the pieces,
   the walls, the marked cells and the minis as they were. *)
C21_ModeToggleKeepsGrid ==
    [][ToggleEditionStep =>
          /\ editionMode' = ~ editionMode
          /\ pieces' = pieces
          /\ walls' = walls
          /\ markedCells' = markedCells
          /\ cellMinis' = cellMinis
          /\ rows' = rows /\ cols' = cols]_vars

\* Edition mode has just been switched off on a grid that holds a piece, a
\* wall, a marker and a mini.
C21_ToggledOffFullGrid ==
    /\ lastOp.op = "toggleEdition"
    /\ ~ editionMode
    /\ pieces # <<>> /\ walls # {} /\ markedCells # {} /\ DOMAIN cellMinis # {}

\* Everything but the piece collection is as it was.
OnlyPiecesMayChange ==
    /\ walls' = walls
    /\ markedCells' = markedCells
    /\ cellMinis' = cellMinis
    /\ rows' = rows /\ cols' = cols
    /\ editionMode' = editionMode
    /\ palette' = palette
    /\ customShapes' = customShapes

(* C22: removePiece(id) deletes the piece of that identity when the collection
   holds it and leaves every other piece as it was, in its order; removePiece
   and rotatePiece on an identity the collection does not hold leave the whole
   state as it was. *)
C22_RemoveAndStaleIdentity ==
    [][/\ lastOp'.op = "removePiece" =>
             /\ \A i \in 1..Len(pieces') : pieces'[i].id # lastOp'.pieceId
             /\ IF Holders(lastOp'.pieceId) = {}
                THEN pieces' = pieces
                ELSE \E k \in Holders(lastOp'.pieceId) :
                        pieces' = [i \in 1..(Len(pieces) - 1) |->
                                      IF i < k THEN pieces[i] ELSE pieces[i + 1]]
             /\ OnlyPiecesMayChange
       /\ (lastOp'.op = "rotatePiece" /\ Holders(lastOp'.pieceId) = {}) =>
             /\ pieces' = pieces
             /\ OnlyPiecesMayChange
      ]_vars

\* The first of two pieces has just been removed, and the second is still there.
C22_RemovedFirstOfTwo ==
    /\ lastOp.op = "removePiece" /\ lastOp.present
    /\ lastOp.pieceId = PieceId(1)
    /\ Len(pieces) = 1
    /\ pieces[1].id = PieceId(2)

\* A pattern with no rows, with a first row of no columns, or with rows of
\* different lengths.
Malformed(pattern) ==
    \/ Len(pattern) = 0
    \/ Len(pattern[1]) = 0
    \/ \E i \in 1..Len(pattern) : Len(pattern[i]) # Len(pattern[1])

(* C23: a drop whose pattern is malformed (no rows, a first row of no columns,
   or rows of different lengths) changes nothing, in placement mode and in
   edition mode: no piece and no mini is inserted and the rest of the state is
   as it was. *)
C23_MalformedDropIsNoOp ==
    [][(lastOp'.op = "drop" /\ Malformed(drag.item.pattern)) =>
          /\ pieces' = pieces
          /\ cellMinis' = cellMinis
          /\ markedCells' = markedCells
          /\ walls' = walls
          /\ rows' = rows /\ cols' = cols
          /\ editionMode' = editionMode
      ]_vars

\* The mini on cellId is gone or is not the one it was.
MiniChanged(cellId) ==
    \/ cellId \notin DOMAIN cellMinis'
    \/ cellMinis'[cellId] # cellMinis[cellId]

(* C24: a mini on a cell keeps the pattern and the colour it was dropped with
   through every step that is not an accepted edition-mode drop on its cell, a
   toggleMark of its cell, a clear, or a resize that changes the size; rotating
   the palette shape it came from and placing, moving, rotating or removing
   pieces leave it as it was. *)
C24_MiniIsFrozen ==
    [][\A cellId \in DOMAIN cellMinis :
          MiniChanged(cellId) =>
             \/ /\ lastOp'.op = "drop" /\ editionMode /\ lastOp'.ok
                /\ cellId = <<lastOp'.at.row, lastOp'.at.col>>
             \/ lastOp'.op = "toggleMark" /\ lastOp'.id = cellId
             \/ lastOp'.op = "clear"
             \/ lastOp'.op = "resize" /\ lastOp'.changed
      ]_vars

\* The 1x2 palette shape has just been turned, and a mini dropped from it
\* before the turn still shows the unturned pattern.
C24_MiniOutlivesPaletteTurn ==
    /\ lastOp.op = "rotatePalette"
    /\ palette["I2"] # I2
    /\ \E cellId \in DOMAIN cellMinis :
          /\ cellMinis[cellId].pattern = I2
          /\ cellMinis[cellId].color = ShapeOf("I2").color

(* C25: trimming is idempotent: for the matrix P in the editor,
   trim(trim(P)) = trim(P); so every pattern a save has put in the catalog is
   its own trim. *)
C25_TrimIsIdempotent ==
    /\ LET trimmed == trimPattern(creator.pattern)
       IN  trimPattern(trimmed) = trimmed
    /\ \A i \in 1..Len(customShapes) :
          trimPattern(customShapes[i].pattern) = customShapes[i].pattern

\* A save has just cut empty rows and columns off the editor's matrix, leaving
\* a pattern of two rows.
C25_SavedTrimmedPattern ==
    /\ lastOp.op = "saveShape"
    /\ lastOp.shape.pattern # lastOp.editor
    /\ Len(lastOp.shape.pattern) = 2
    /\ Len(lastOp.shape.pattern[1]) > 1

\* trimmed is the block of P whose top-left cell is P's 0-based (r0, c0).
IsBlockOf(trimmed, P, r0, c0) ==
    /\ r0 + Len(trimmed) <= Len(P)
    /\ \A i \in 1..Len(trimmed) :
          /\ Len(trimmed[i]) = Len(trimmed[1])
          /\ c0 + Len(trimmed[i]) <= Len(P[r0 + i])
          /\ \A j \in 1..Len(trimmed[i]) : trimmed[i][j] = P[r0 + i][c0 + j]

\* The first and the last row and the first and the last column of a pattern
\* each hold a set cell.
TightBox(pattern) ==
    LET set == SetCells(pattern)
    IN  /\ \E c \in set : c[1] = 0
        /\ \E c \in set : c[1] = Len(pattern) - 1
        /\ \E c \in set : c[2] = 0
        /\ \E c \in set : c[2] = Len(pattern[1]) - 1

(* C26: for the matrix P in the editor, trim(P) is [[1]] when P has no set
   cell; otherwise it is a block of P that keeps every set cell of P and whose
   first and last row and first and last column each hold a set cell.  Every
   pattern a save has put in the catalog has a row, a column and a set cell. *)
C26_TrimIsBoundingBox ==
    /\ LET P == creator.pattern
           trimmed == trimPattern(P)
       IN  IF SetCells(P) = {}
           THEN trimmed = <<<<1>>>>
           ELSE \E r0 \in 0..(Len(P) - 1), c0 \in 0..(Len(P[1]) - 1) :
                   /\ IsBlockOf(trimmed, P, r0, c0)
                   /\ SetCells(P) = {<<c[1] + r0, c[2] + c0>> : c \in SetCells(trimmed)}
                   /\ TightBox(trimmed)
    /\ \A i \in 1..Len(customShapes) :
          LET pattern == customShapes[i].pattern
          IN  /\ Len(pattern) >= 1
              /\ \A k \in 1..Len(pattern) : Len(pattern[k]) = Len(pattern[1])
              /\ Len(pattern[1]) >= 1
              /\ SetCells(pattern) # {}

\* The catalog holds a pattern with unset cells inside its bounding box, and
\* the all-zero matrix has just been saved as [[1]].
C26_SavedBoxAndSingleCell ==
    /\ Len(customShapes) = 2
    /\ customShapes[1].pattern = <<<<0, 1>>, <<1, 0>>>>
    /\ lastOp.op = "saveShape"
    /\ SetCells(lastOp.editor) = {}
    /\ customShapes[2].pattern = <<<<1>>>>

(* C27: whatever integers the row and column fields are given, the row count
   and the column count the grid is rendered with are within 1..10. *)
C27_SizeWithinLimits ==
    /\ rows \in MinGridSize..MaxGridSize
    /\ cols \in MinGridSize..MaxGridSize

\* Inputs above and below the limits (none of the inputs is 10 or 1) have left
\* the grid at ten rows and one column.
C27_ClampedBothWays ==
    /\ lastOp.op = "resize"
    /\ rows = MaxGridSize
    /\ cols = MinGridSize

\* The positions of the catalog holding a shape of this id.
CatalogHolders(id) == {i \in 1..Len(customShapes) : customShapes[i].id = id}

(* C28: a save whose shape has the id of a catalog entry replaces that entry
   in place and keeps the catalog's length, any other save appends the shape;
   a delete leaves no entry of the deleted id and keeps the other entries in
   their order; after every step the catalog holds at most one entry per id. *)
C28_SaveIsUpsert ==
    [][/\ lastOp'.op = "saveShape" =>
             LET shape == lastOp'.shape
             IN  IF CatalogHolders(shape.id) # {}
                 THEN /\ Len(customShapes') = Len(customShapes)
                      /\ \A i \in 1..Len(customShapes) :
                            customShapes'[i] = IF i \in CatalogHolders(shape.id)
                                               THEN shape ELSE customShapes[i]
                 ELSE customShapes' = customShapes \o <<shape>>
       /\ lastOp'.op = "deleteShape" =>
             /\ \A i \in 1..Len(customShapes') : customShapes'[i].id # lastOp'.id
             /\ \E k \in CatalogHolders(lastOp'.id) :
                   customShapes' = [i \in 1..(Len(customShapes) - 1) |->
                                      IF i < k THEN customShapes[i]
                                      ELSE customShapes[i + 1]]
       /\ \A i, j \in 1..Len(customShapes') :
             customShapes'[i].id = customShapes'[j].id => i = j
      ]_vars

\* The first of two catalog entries has just been saved again under its id,
\* with a new colour: it is still first and the catalog still has two entries.
C28_ReplacedFirstOfTwo ==
    /\ lastOp.op = "saveShape"
    /\ Len(customShapes) = 2
    /\ customShapes[1] = lastOp.shape
    /\ customShapes[1].id = ShapeId(1)
    /\ customShapes[1].color # DefaultColor
    /\ customShapes[2].id = ShapeId(2)

\* The drag of a placed piece has just ended with no drop target taking it.
ReleasedOutsideStep ==
    /\ lastOp'.op = "dragEnd"
    /\ lastOp'.src = "piece"
    /\ ~ lastOp'.didDrop

(* C29: when the drag of a placed piece is released outside the grid, no piece
   of its identity is in the collection afterwards, the other pieces are as
   they were and in their order, and walls, markers and minis are unchanged. *)
C29_ReleasedOutsideIsRemoved ==
    [][ReleasedOutsideStep =>
          /\ \A i \in 1..Len(pieces') : pieces'[i].id # lastOp'.pieceId
          /\ \E k \in Holders(lastOp'.pieceId) :
                pieces' = [i \in 1..(Len(pieces) - 1) |->
                              IF i < k THEN pieces[i] ELSE pieces[i + 1]]
          /\ walls' = walls
          /\ markedCells' = markedCells
          /\ cellMinis' = cellMinis
      ]_vars

\* One of two placed pieces has just been dragged off the grid; the other one
\* is still placed.
C29_OtherPieceStays ==
    /\ lastOp.op = "dragEnd" /\ lastOp.src = "piece" /\ ~ lastOp.didDrop
    /\ Len(pieces) = 1
    /\ pieces[1].id # lastOp.pieceId

(* C30: in every reachable state every set cell of every placed piece lies
   inside the grid: 0 <= piece.row + i < rows and 0 <= piece.col + j < cols
   for each set cell (i, j) of the piece's current pattern, also after the
   piece was rotated. *)
C30_PiecesInsideGrid ==
    \A k \in 1..Len(pieces) :
        InBounds(pieces[k].pattern, [row |-> pieces[k].row, col |-> pieces[k].col])

\* `pattern` turned clockwise n times, n in 0..3.
TurnedTimes(pattern, n) ==
    IF n = 0 THEN pattern
    ELSE IF n = 1 THEN rotatePattern(pattern)
    ELSE IF n = 2 THEN rotatePattern(rotatePattern(pattern))
    ELSE rotatePattern(rotatePattern(rotatePattern(pattern)))

(* C31: in every reachable state the current pattern of each placed piece is
   its original pattern turned clockwise (rotation / 90) times, whatever the
   order of drops, rotations, moves and edition-mode toggles before. *)
C31_PatternIsTurnedOriginal ==
    \A k \in 1..Len(pieces) :
        pieces[k].pattern =
            TurnedTimes(pieces[k].originalPattern, pieces[k].rotation \div 90)

\* The step taken is a clear, or a resize that changed the size.
ClearOrResizeStep ==
    \/ lastOp'.op = "clear"
    \/ lastOp'.op = "resize" /\ lastOp'.changed

(* C32: in a step taken while edition mode is off, the walls, the marked cells
   and the minis change only if the step is a clear or a resize; in a step
   taken while edition mode is on, the piece collection changes only if the
   step is a clear or a resize. *)
C32_ModeDecidesWhatChanges ==
    [][/\ (/\ ~ editionMode
           /\ \/ walls' # walls
              \/ markedCells' # markedCells
              \/ cellMinis' # cellMinis) => ClearOrResizeStep
       /\ (editionMode /\ pieces' # pieces) => ClearOrResizeStep
      ]_vars

\* In edition mode, with a piece and a wall on the grid, a drop has just put a
\* mini on a cell.
C32_MiniDroppedBesidePiece ==
    /\ editionMode
    /\ pieces # <<>>
    /\ walls # {}
    /\ lastOp.op = "drop" /\ lastOp.valid /\ lastOp.ok
    /\ DOMAIN cellMinis # {}

\* The squared distance from the centre of `cell` to the point p, both
\* relative to the first cell of the grid.
CenterDistance2(cell, p) ==
    LET cx == cell[2] * Pitch + (gridCellSize \div 2)
        cy == cell[1] * Pitch + (gridCellSize \div 2)
    IN  (p.x - cx) * (p.x - cx) + (p.y - cy) * (p.y - cy)

\* p lies in the area the cells of the grid span.
InGridArea(p) ==
    /\ 0 <= p.x /\ p.x < cols * Pitch - gridPaddingSize
    /\ 0 <= p.y /\ p.y < rows * Pitch - gridPaddingSize

(* C33: an edition-mode drop with the pointer inside the grid area inserts the
   mini at the cell whose centre is nearest to the pointer: the drop yields a
   target, and no cell of the grid has its centre nearer to the pointer than
   the target has. *)
C33_MiniAtNearestCenter ==
    [][(DropMiniStep /\ InGridArea(PointerInGridNext)) =>
          LET target == <<lastOp'.at.row, lastOp'.at.col>>
          IN  /\ lastOp'.ok
              /\ target \in DOMAIN cellMinis'
              /\ \A cell \in RenderedCells(rows, cols) :
                    CenterDistance2(target, PointerInGridNext)
                        <= CenterDistance2(cell, PointerInGridNext)
      ]_vars

(* C34: when the grid accepts the drop of a dragged placed piece, the
   collection holds exactly one piece of its identity, at the new origin; and
   no later step of that session, its end included, changes the collection, so
   the piece is not removed. *)
C34_AcceptedMoveIsNotRemoved ==
    [][/\ (DropPieceStep /\ drag.src = "piece" /\ lastOp'.ok) =>
             /\ \E i \in 1..Len(pieces') :
                   /\ pieces'[i].id = drag.item.pieceId
                   /\ pieces'[i].row = lastOp'.at.row
                   /\ pieces'[i].col = lastOp'.at.col
             /\ Cardinality({i \in 1..Len(pieces') :
                                pieces'[i].id = drag.item.pieceId}) = 1
       /\ (drag.src = "piece" /\ drag.placed) => pieces' = pieces
      ]_vars

\* The session of a placed piece has just ended after an accepted drop, and the
\* piece is in the collection, beside another one.
C34_MovedPieceSurvivesEnd ==
    /\ lastOp.op = "dragEnd" /\ lastOp.src = "piece" /\ lastOp.placed
    /\ Len(pieces) = 2
    /\ pieces[2].id = lastOp.pieceId
    /\ pieces[1].id # lastOp.pieceId

\* The step taken is an accepted drop of a piece that was on the grid.
MoveStep ==
    /\ DropPieceStep /\ lastOp'.ok
    /\ drag.item.pieceId # NoId

(* C35: an accepted move puts the moved piece last in the collection, the other
   pieces keeping their order, so every cell it covers is painted with its
   color; a rotation leaves every piece at its position of the collection. *)
C35_MoveToTopRotateInPlace ==
    [][/\ MoveStep =>
             LET moved == pieces'[Len(pieces')]
             IN  /\ moved.id = drag.item.pieceId
                 /\ \A i \in 1..(Len(pieces') - 1) : pieces'[i].id # moved.id
                 /\ OrderWithout(pieces', moved.id) = OrderWithout(pieces, moved.id)
                 /\ \A cell \in Footprint(moved) :
                       getCellColor(pieces', cell[1], cell[2]) = moved.color
       /\ RotateStep =>
             /\ Len(pieces') = Len(pieces)
             /\ \A i \in 1..Len(pieces) : pieces'[i].id = pieces[i].id
      ]_vars

\* The piece placed first has just been moved: it is now the second of the two
\* pieces of the collection.
C35_FirstPieceMovedLast ==
    /\ JustDroppedPiece /\ lastOp.ok
    /\ lastOp.old.id = PieceId(1)
    /\ Len(pieces) = 2
    /\ pieces[1].id = PieceId(2)
    /\ pieces[2].id = PieceId(1)

\* The pieces of a collection other than the one of identity `id`, in order.
OthersOf(ps, id) ==
    LET Other(p) == p.id # id
    IN  SelectSeq(ps, Other)

(* C36: an accepted placement-mode drop, a removal and a rotation leave every
   piece but the targeted one as it was (identity, pattern, original pattern,
   color, origin and rotation); an accepted drop of an item without pieceId
   makes the collection exactly one piece longer. *)
C36_OnlyTargetedPieceChanges ==
    [][/\ (DropPieceStep /\ lastOp'.ok) =>
             LET target == pieces'[Len(pieces')].id
             IN  /\ OthersOf(pieces', target) = OthersOf(pieces, target)
                 /\ drag.item.pieceId = NoId =>
                       /\ Len(pieces') = Len(pieces) + 1
                       /\ OthersOf(pieces, target) = pieces
       /\ ReleasedOutsideStep =>
             OthersOf(pieces', lastOp'.pieceId) = OthersOf(pieces, lastOp'.pieceId)
       /\ RotateStep =>
             OthersOf(pieces', lastOp'.pieceId) = OthersOf(pieces, lastOp'.pieceId)
      ]_vars

\* One of two pieces has just been turned; the other one is as it was placed.
C36_TurnedOneOfTwo ==
    /\ lastOp.op = "rotate"
    /\ Len(pieces) = 2
    /\ \E i, j \in 1..2 :
          /\ pieces[i].id = lastOp.pieceId
          /\ pieces[i].rotation = 90
          /\ pieces[j].id # lastOp.pieceId
          /\ pieces[j].rotation = 0
          /\ pieces[j].pattern = pieces[j].originalPattern

(* C37: the four collections are independent under single operations: a
   placement-mode drop, the end of a drag (which may remove a piece) and a
   rotation leave walls, markers and minis as they were; toggleWall leaves
   pieces, markers and minis as they were; toggleMark and an edition-mode drop
   leave pieces and walls as they were. *)
C37_CollectionsAreIndependent ==
    [][/\ (DropPieceStep \/ lastOp'.op = "dragEnd" \/ RotateStep) =>
             /\ walls' = walls
             /\ markedCells' = markedCells
             /\ cellMinis' = cellMinis
       /\ lastOp'.op = "toggleWall" =>
             /\ pieces' = pieces
             /\ markedCells' = markedCells
             /\ cellMinis' = cellMinis
       /\ (ToggleMarkStep \/ DropMiniStep) =>
             /\ pieces' = pieces
             /\ walls' = walls
      ]_vars

\* A cell has just been clicked in edition mode on a grid that holds a piece,
\* a wall and a mini.
C37_MarkToggledOnFullGrid ==
    /\ lastOp.op = "toggleMark"
    /\ pieces # <<>>
    /\ walls # {}
    /\ DOMAIN cellMinis # {}

\* The app mounted on a stored catalog that held a shape.
MountedOnCatalog ==
    /\ mount.before.text
    /\ JSON_parse(mount.before) # <<>>

(* C38: when the app mounts on a stored catalog that is not empty, then once
   the load effect, the save effects and the update they queue have all run,
   the catalog in memory and the stored catalog both equal the catalog stored
   before the mount; and while they run, the stored catalog is never empty. *)
C38_CatalogSurvivesReload ==
    MountedOnCatalog =>
        /\ (mount.phase = "done" /\ lastOp.op = "saveEffect") =>
              /\ customShapes = JSON_parse(mount.before)
              /\ storage = mount.before
        /\ mount.phase # "done" =>
              /\ storage.text
              /\ JSON_parse(storage) # <<>>

====
